---- MODULE Spec2Model ----
(***************************************************************************)
(* A model of urdubiometer: the meter automaton builder (regex -> postfix  *)
(* -> NFA -> minimised graph -> merged translation graph), the scanner's   *)
(* work-list traversal with constrained parsers, the default post-scan     *)
(* filter, and the GraphParser runtime (tokenize, match_at, parse).        *)
(*                                                                         *)
(* Node keys are the 0-based integers of the source; a graph's node list   *)
(* is a sequence, so node k is node[k + 1].                                *)
(***************************************************************************)
EXTENDS Integers, Sequences, FiniteSets, TLC

\* ---------------------------------------------------------------------
\* generic helpers
\* ---------------------------------------------------------------------

Range(s) == {s[i] : i \in 1..Len(s)}

InSeq(x, s) == \E i \in 1..Len(s) : s[i] = x

RECURSIVE Repeat(_, _)
Repeat(x, n) == IF n <= 0 THEN <<>> ELSE <<x>> \o Repeat(x, n - 1)

RECURSIVE Concat(_)
Concat(ss) == IF ss = <<>> THEN <<>> ELSE Head(ss) \o Concat(Tail(ss))

RECURSIVE Dedup(_)
\* the keys of a dict filled in the order of s: first occurrences, in order
Dedup(s) ==
  IF s = <<>> THEN <<>>
  ELSE LET init == Dedup(SubSeq(s, 1, Len(s) - 1))
           last == s[Len(s)]
       IN IF InSeq(last, init) THEN init ELSE Append(init, last)

Reverse(s) == [i \in 1..Len(s) |-> s[Len(s) + 1 - i]]

\* ---------------------------------------------------------------------
\* DirectedGraph
\* ---------------------------------------------------------------------

NoMeter == 0 - 1

DirectedGraph == [node |-> <<>>, edge_list |-> <<>>]

NodeData(t) == [type |-> t, meter_key |-> NoMeter]

add_node(g, data) == [g EXCEPT !.node = Append(@, data)]

add_edge(g, s, t) == [g EXCEPT !.edge_list = Append(@, <<s, t>>)]

NodeKeys(g) == 0..(Len(g.node) - 1)

TypeOf(g, k) == g.node[k + 1].type

\* [target for source, target in graph.edge_list if source == node_key]
children_of(g, k) ==
  LET es == SelectSeq(g.edge_list, LAMBDA e : e[1] = k)
  IN [i \in 1..Len(es) |-> es[i][2]]

\* [source for source, target in graph.edge_list if target == node_key]
parents_of(g, k) ==
  LET es == SelectSeq(g.edge_list, LAMBDA e : e[2] = k)
  IN [i \in 1..Len(es) |-> es[i][1]]

\* graph.edge[k]: the dict of targets of k, in insertion order
edge_of(g, k) == Dedup(children_of(g, k))

HasEdge(g, s, t) == InSeq(<<s, t>>, g.edge_list)

\* ---------------------------------------------------------------------
\* regex -> postfix  (scanner/initialize.py _regex_to_postfix)
\* ---------------------------------------------------------------------

Failure(msg) == [err |-> TRUE, msg |-> msg, out |-> <<>>]
Success(out) == [err |-> FALSE, msg |-> "", out |-> out]

\* the loop "natom -= 1; while natom > 0: dst.append('.'); natom -= 1"
FlushAtoms(natom) == Repeat(".", natom - 1)

\* the final loop "while nalt > 0: dst.append('|' * nalt); nalt -= 1"
RECURSIVE FinalAlts(_)
FinalAlts(nalt) ==
  IF nalt <= 0 THEN <<>> ELSE Repeat("|", nalt) \o FinalAlts(nalt - 1)

RECURSIVE regex_to_postfix_loop(_, _, _, _, _, _)
regex_to_postfix_loop(regex, i, nalt, natom, dst, paren) ==
  IF i > Len(regex)
  THEN Success(dst \o FlushAtoms(natom) \o FinalAlts(nalt))
  ELSE
    LET c == regex[i] IN
    CASE c = "(" ->
           IF natom > 1
           THEN regex_to_postfix_loop(regex, i + 1, 0, 0, Append(dst, "."),
                                      Append(paren, <<nalt, natom - 1>>))
           ELSE regex_to_postfix_loop(regex, i + 1, 0, 0, dst,
                                      Append(paren, <<nalt, natom>>))
      [] c = "|" ->
           IF natom = 0
           THEN Failure("Regex is missing an expression before |.")
           ELSE regex_to_postfix_loop(regex, i + 1, nalt + 1, 0,
                                      dst \o FlushAtoms(natom), paren)
      [] c = ")" ->
           IF paren = <<>>
           THEN Failure("Regex parentheses do not match.")
           ELSE IF natom = 0
           THEN Failure("Regex parentheses are missing an expression.")
           ELSE LET top == paren[Len(paren)]
                IN regex_to_postfix_loop(
                     regex, i + 1, top[1], top[2] + 1,
                     dst \o FlushAtoms(natom) \o Repeat("|", nalt),
                     SubSeq(paren, 1, Len(paren) - 1))
      [] c \in {"*", "+", "?"} ->
           IF natom = 0
           THEN Failure("Regex operator requires an expression.")
           ELSE regex_to_postfix_loop(regex, i + 1, nalt, natom,
                                      Append(dst, c), paren)
      [] OTHER ->
           IF natom > 1
           THEN regex_to_postfix_loop(regex, i + 1, nalt, natom,
                                      dst \o <<".", c>>, paren)
           ELSE regex_to_postfix_loop(regex, i + 1, nalt, natom + 1,
                                      Append(dst, c), paren)

regex_to_postfix(regex) ==
  IF ~(Len(regex) > 0)
  THEN Failure("Regular expression is empty.")
  ELSE regex_to_postfix_loop(regex, 1, 0, 0, <<>>, <<>>)

\* ---------------------------------------------------------------------
\* postfix -> NFA  (scanner/initialize.py _postfix_to_ndfa)
\* ---------------------------------------------------------------------

None == 0 - 1

\* "if _:" on an int-or-None: None and 0 are both falsy
Truthy(x) == x /= None /\ x /= 0

\* state(node_type, out, out1): the new node's key is Len(g.node)
state(g, node_type, out, out1) ==
  LET key == Len(g.node)
      g0  == add_node(g, NodeData(node_type))
      g1  == IF Truthy(out) THEN add_edge(g0, key, out) ELSE g0
      g2  == IF Truthy(out1) THEN add_edge(g1, key, out1) ELSE g1
  IN g2

RECURSIVE patch(_, _, _)
patch(g, l, s) ==
  IF l = <<>> THEN g ELSE patch(add_edge(g, Head(l), s), Tail(l), s)

frag(start, out) == [start |-> start, out |-> out]

NdfaFailure == [err |-> TRUE, graph |-> DirectedGraph]

RECURSIVE postfix_to_ndfa_loop(_, _, _, _)
postfix_to_ndfa_loop(postfix, i, g, stackp) ==
  LET n  == Len(stackp)
      e2 == stackp[n]
      e1 == stackp[n - 1]
      s  == Len(g.node)
  IN
  IF i > Len(postfix)
  THEN IF n < 1 THEN NdfaFailure
       ELSE [err |-> FALSE,
             graph |-> patch(state(g, "Accepting", None, None), e2.out, s)]
  ELSE
    LET c == postfix[i] IN
    CASE c = "." ->
           IF n < 2 THEN NdfaFailure
           ELSE postfix_to_ndfa_loop(
                  postfix, i + 1, patch(g, e1.out, e2.start),
                  Append(SubSeq(stackp, 1, n - 2), frag(e1.start, e2.out)))
      [] c = "|" ->
           IF n < 2 THEN NdfaFailure
           ELSE postfix_to_ndfa_loop(
                  postfix, i + 1, state(g, "Split", e1.start, e2.start),
                  Append(SubSeq(stackp, 1, n - 2), frag(s, e1.out \o e2.out)))
      [] c = "?" ->
           IF n < 1 THEN NdfaFailure
           ELSE postfix_to_ndfa_loop(
                  postfix, i + 1, state(g, "Split", e2.start, None),
                  Append(SubSeq(stackp, 1, n - 1),
                         frag(s, Append(e2.out, s))))
      [] c = "*" ->
           IF n < 1 THEN NdfaFailure
           ELSE postfix_to_ndfa_loop(
                  postfix, i + 1,
                  patch(state(g, "Split", e2.start, None), e2.out, s),
                  Append(SubSeq(stackp, 1, n - 1), frag(s, <<s>>)))
      [] c = "+" ->
           IF n < 1 THEN NdfaFailure
           ELSE postfix_to_ndfa_loop(
                  postfix, i + 1,
                  patch(state(g, "Split", e2.start, None), e2.out, s),
                  Append(SubSeq(stackp, 1, n - 1), frag(e2.start, <<s>>)))
      [] OTHER ->
           postfix_to_ndfa_loop(postfix, i + 1, state(g, c, None, None),
                                Append(stackp, frag(s, <<s>>)))

postfix_to_ndfa(postfix) == postfix_to_ndfa_loop(postfix, 1, DirectedGraph, <<>>)

\* ---------------------------------------------------------------------
\* NFA -> minimised graph  (scanner/initialize.py _minimize_ndfa)
\* ---------------------------------------------------------------------

\* bound on the steps of one Split-chain search (the source has none)
MinimizeFuel == 16

NonSplitKeys(ndfa) == {k \in NodeKeys(ndfa) : TypeOf(ndfa, k) /= "Split"}

\* node_mappings: old key -> new key, the non-Split nodes renumbered in order
node_mapping_of(ndfa, k) == Cardinality({j \in NonSplitKeys(ndfa) : j < k})

gen_new_graph(ndfa) ==
  [node |-> SelectSeq(ndfa.node, LAMBDA d : d.type /= "Split"),
   edge_list |-> <<>>]

\* the "while stack:" loop of one source node; fuel counts the pops left
RECURSIVE minimize_search(_, _, _, _, _)
minimize_search(ndfa, node_key, stack, new_graph, fuel) ==
  IF stack = <<>> THEN [diverged |-> FALSE, graph |-> new_graph]
  ELSE IF fuel = 0 THEN [diverged |-> TRUE, graph |-> new_graph]
  ELSE
    LET child_key == Head(stack) IN
    IF TypeOf(ndfa, child_key) = "Split"
    THEN minimize_search(ndfa, node_key,
                         children_of(ndfa, child_key) \o Tail(stack),
                         new_graph, fuel - 1)
    ELSE
      LET src == node_mapping_of(ndfa, node_key)
          dst == node_mapping_of(ndfa, child_key)
      IN minimize_search(ndfa, node_key, Tail(stack),
                         IF HasEdge(new_graph, src, dst) THEN new_graph
                         ELSE add_edge(new_graph, src, dst),
                         fuel - 1)

RECURSIVE minimize_nodes(_, _, _)
minimize_nodes(ndfa, node_key, new_graph) ==
  IF node_key >= Len(ndfa.node)
  THEN [diverged |-> FALSE, graph |-> new_graph]
  ELSE IF TypeOf(ndfa, node_key) = "Split"
  THEN minimize_nodes(ndfa, node_key + 1, new_graph)
  ELSE
    LET r == minimize_search(ndfa, node_key, children_of(ndfa, node_key),
                             new_graph, MinimizeFuel)
    IN IF r.diverged THEN r
       ELSE minimize_nodes(ndfa, node_key + 1, r.graph)

minimize_ndfa(ndfa) == minimize_nodes(ndfa, 0, gen_new_graph(ndfa))

\* _ndfa_graph_of_meter / _minimized_graph_of_meter
\* outcome: "ok", "error" (an exception is raised) or "diverged"
ndfa_graph_of_meter(regex) ==
  LET postfix == regex_to_postfix(<<"0", "(">> \o regex \o <<")">>)
  IN IF postfix.err THEN NdfaFailure ELSE postfix_to_ndfa(postfix.out)

minimized_graph_of_meter(regex) ==
  LET ndfa == ndfa_graph_of_meter(regex)
      min  == minimize_ndfa(ndfa.graph)
  IN IF ndfa.err THEN [outcome |-> "error", graph |-> DirectedGraph]
     ELSE IF min.diverged THEN [outcome |-> "diverged", graph |-> min.graph]
     ELSE [outcome |-> "ok", graph |-> min.graph]

\* ---------------------------------------------------------------------
\* merging a meter graph into the translation graph
\* (scanner/initialize.py _add_subgraph_to_graph, _meters_graph_of)
\* ---------------------------------------------------------------------

\* levels_of(graph): BFS level of every node reachable from node 0
RECURSIVE levels_bfs(_, _, _, _)
levels_bfs(g, frontier, level, d) ==
  IF frontier = {} THEN level
  ELSE
    LET next == {t \in NodeKeys(g) :
                   /\ t \notin DOMAIN level
                   /\ \E s \in frontier : HasEdge(g, s, t)}
    IN levels_bfs(g, next, level @@ [t \in next |-> d + 1], d + 1)

levels_of(g) == levels_bfs(g, {0}, (0 :> 0), 0)

\* contains_cycle(node_key, graph, level): "True", "False", or "KeyError"
\* when level[] is read for a node the BFS did not reach
RECURSIVE contains_cycle_loop(_, _, _)
contains_cycle_loop(ps, node_key, level) ==
  IF ps = <<>> THEN "False"
  ELSE IF Head(ps) \notin DOMAIN level \/ node_key \notin DOMAIN level
  THEN "KeyError"
  ELSE IF level[Head(ps)] >= level[node_key] THEN "True"
  ELSE contains_cycle_loop(Tail(ps), node_key, level)

contains_cycle(node_key, g, level) ==
  contains_cycle_loop(parents_of(g, node_key), node_key, level)

\* child_of_type(graph, node_key, child_type): the first child of that type
\* that does not contain a cycle, or None
RECURSIVE child_of_type_loop(_, _, _, _)
child_of_type_loop(g, children, child_type, level) ==
  IF children = <<>> THEN None
  ELSE IF /\ TypeOf(g, Head(children)) = child_type
          /\ contains_cycle(Head(children), g, level) = "False"
  THEN Head(children)
  ELSE child_of_type_loop(g, Tail(children), child_type, level)

\* the first node of that type without a cycle anywhere in the graph
child_of_type_anywhere(g, node_key, child_type) ==
  child_of_type_loop(g, [i \in 1..(Len(g.node) - 1) |-> i], child_type, levels_of(g))

child_of_type(g, node_key, child_type) ==
  child_of_type_loop(g, children_of(g, node_key), child_type, levels_of(g))

\* node_mappings.get(k)
MappingGet(node_mappings, k) ==
  IF k \in DOMAIN node_mappings THEN node_mappings[k] ELSE None

\* one pass of "for child_key in children:" for the popped queue entry
\* st = [new_graph, node_mappings, accepting_node_key, queue, err]
RECURSIVE merge_children(_, _, _, _, _, _, _)
merge_children(st, graph, level, meter_key, new_node_key, visited, children) ==
  IF children = <<>> \/ st.err THEN st
  ELSE
    LET child_key  == Head(children)
        child_type == TypeOf(graph, child_key)
        cyc        == contains_cycle(child_key, graph, level)
        equivalent == MappingGet(st.node_mappings, child_key)
        found      == IF cyc = "True" THEN None
                      ELSE IF Truthy(equivalent) THEN equivalent
                      ELSE child_of_type(st.new_graph, new_node_key, child_type)
        fresh      == Len(st.new_graph.node)
        reuse_acc  == child_type = "Accepting" /\ st.accepting_node_key >= 0
        matching_child_key ==
          IF Truthy(found) THEN found
          ELSE IF reuse_acc THEN st.accepting_node_key
          ELSE fresh
        created    == ~Truthy(found) /\ ~reuse_acc
        g1 == IF created
              THEN add_node(st.new_graph,
                            [type |-> child_type,
                             meter_key |-> IF child_type = "Accepting"
                                           THEN meter_key ELSE NoMeter])
              ELSE st.new_graph
        g2 == IF HasEdge(g1, new_node_key, matching_child_key) THEN g1
              ELSE add_edge(g1, new_node_key, matching_child_key)
    IN
    IF cyc = "KeyError" THEN [st EXCEPT !.err = TRUE]
    ELSE IF cyc = "True" /\ Truthy(equivalent)
    THEN merge_children(
           [st EXCEPT !.new_graph = add_edge(@, new_node_key, equivalent)],
           graph, level, meter_key, new_node_key, visited, Tail(children))
    ELSE merge_children(
           [new_graph |-> g2,
            node_mappings |->
              IF created
              THEN [k \in DOMAIN st.node_mappings \cup {child_key} |->
                      IF k = child_key THEN fresh ELSE st.node_mappings[k]]
              ELSE st.node_mappings,
            accepting_node_key |->
              IF created /\ child_type = "Accepting" THEN fresh
              ELSE st.accepting_node_key,
            queue |-> Append(st.queue, <<child_key, matching_child_key, visited>>),
            err |-> FALSE],
           graph, level, meter_key, new_node_key, visited, Tail(children))

\* the "while queue:" loop
RECURSIVE merge_queue(_, _, _, _)
merge_queue(st, graph, level, meter_key) ==
  IF st.queue = <<>> \/ st.err THEN st
  ELSE
    LET entry   == Head(st.queue)
        visited == entry[3] \cup {entry[1]}
    IN IF entry[1] \in entry[3]      \* assert node_key not in visited
       THEN [st EXCEPT !.err = TRUE]
       ELSE merge_queue(
              merge_children([st EXCEPT !.queue = Tail(@)], graph, level,
                             meter_key, entry[2], visited,
                             children_of(graph, entry[1])),
              graph, level, meter_key)

\* _add_subgraph_to_graph(graph, new_graph, accepting_attr) where
\* accepting_attr carries meter_key; result [err, graph]
add_subgraph_to_graph(graph, new_graph, meter_key) ==
  LET start == IF Len(new_graph.node) = 0
               THEN add_node(new_graph, NodeData("0"))
               ELSE new_graph
      st == merge_queue([new_graph |-> start,
                         node_mappings |-> (0 :> 0),
                         accepting_node_key |-> 0 - 1,
                         queue |-> << <<0, 0, {}>> >>,
                         err |-> FALSE],
                        graph, levels_of(graph), meter_key)
  IN [err |-> st.err, graph |-> st.new_graph]

\* one iteration of the loop of _meters_graph_of: meter i (0-based) of the
\* list is minimised and merged; outcome "ok", "error" or "diverged"
merge_meter(meters_graph, regex, i) ==
  LET sub == minimized_graph_of_meter(regex)
      res == add_subgraph_to_graph(sub.graph, meters_graph, i)
  IN IF sub.outcome /= "ok" THEN [outcome |-> sub.outcome, graph |-> meters_graph]
     ELSE IF res.err THEN [outcome |-> "error", graph |-> meters_graph]
     ELSE [outcome |-> "ok", graph |-> res.graph]

RECURSIVE meters_graph_loop(_, _, _)
meters_graph_loop(meters_list, i, meters_graph) ==
  IF i >= Len(meters_list) THEN [outcome |-> "ok", graph |-> meters_graph]
  ELSE LET r == merge_meter(meters_graph, meters_list[i + 1], i)
       IN IF r.outcome /= "ok" THEN r
          ELSE meters_graph_loop(meters_list, i + 1, r.graph)

meters_graph_of(meters_list) == meters_graph_loop(meters_list, 0, DirectedGraph)

\* ---------------------------------------------------------------------
\* the parsers handed to the Scanner (graphtransliterator objects): their
\* configuration is that of tests/test_scanner.py test_constraints
\* ---------------------------------------------------------------------

ParserRule(production, toks) == [production |-> production, tokens |-> toks]

Whitespace == [default |-> "b", token_class |-> "wb", consolidate |-> TRUE]

\* rules are kept sorted by cost: more tokens first
long_parser ==
  [tokens |-> {"a", "b"},
   whitespace_tokens |-> {"b"},
   whitespace |-> Whitespace,
   rules |-> << ParserRule("l<baa>", <<"b", "a", "a">>),
                ParserRule("l<aa>", <<"a", "a">>) >>]

short_parser ==
  [tokens |-> {"a", "b"},
   whitespace_tokens |-> {"b"},
   whitespace |-> Whitespace,
   rules |-> << ParserRule("s<ba>", <<"b", "a">>),
                ParserRule("s<a>", <<"a">>) >>]

transcription_parser ==
  [tokens |-> {"A", " "},
   whitespace_tokens |-> {" "},
   whitespace |-> [default |-> " ", token_class |-> "wb", consolidate |-> TRUE],
   rules |-> << ParserRule("a", <<"A">>), ParserRule("b", <<" ">>) >>]

\* parser.tokenize(s): the default whitespace, the tokens of s with every
\* run of whitespace collapsed and trailing whitespace stripped, the default
RECURSIVE consolidated(_, _, _)
consolidated(parser, s, prev_whitespace) ==
  IF s = <<>> THEN <<>>
  ELSE IF Head(s) \in parser.whitespace_tokens
  THEN IF prev_whitespace THEN consolidated(parser, Tail(s), TRUE)
       ELSE <<parser.whitespace.default>> \o consolidated(parser, Tail(s), TRUE)
  ELSE <<Head(s)>> \o consolidated(parser, Tail(s), FALSE)

RECURSIVE strip_trailing(_, _)
strip_trailing(parser, toks) ==
  IF toks /= <<>> /\ toks[Len(toks)] \in parser.whitespace_tokens
  THEN strip_trailing(parser, SubSeq(toks, 1, Len(toks) - 1))
  ELSE toks

parser_tokenize(parser, s) ==
  <<parser.whitespace.default>>
    \o strip_trailing(parser, consolidated(parser, s, TRUE))
    \o <<parser.whitespace.default>>

\* does rule r apply at the 0-based position token_i of toks
rule_matches_at(r, token_i, toks) ==
  /\ token_i + Len(r.tokens) <= Len(toks)
  /\ \A j \in 1..Len(r.tokens) : toks[token_i + j] = r.tokens[j]

\* parser.match_at(token_i, tokens, match_all=True): every rule key that
\* matches at token_i, in the parser's rule order (keys are 1-based here)
RECURSIVE match_all_from(_, _, _, _)
match_all_from(parser, k, token_i, toks) ==
  IF k > Len(parser.rules) THEN <<>>
  ELSE (IF rule_matches_at(parser.rules[k], token_i, toks) THEN <<k>> ELSE <<>>)
         \o match_all_from(parser, k + 1, token_i, toks)

match_at_all(parser, token_i, toks) == match_all_from(parser, 1, token_i, toks)

\* parser.pruned_of(productions): the parser without the rules whose
\* production is listed
pruned_of(parser, productions) ==
  [parser EXCEPT !.rules = SelectSeq(@, LAMBDA r : r.production \notin productions)]

\* transcription_parser.transliterate(input): the productions of the rules
\* matched from token 1 to the final sentinel joined into one string (an
\* empty production adds no character), and last_matched_rule_tokens
RECURSIVE transliterate_from(_, _, _)
transliterate_from(parser, toks, token_i) ==
  IF token_i >= Len(toks) - 1
  THEN [err |-> FALSE, output |-> <<>>, last_matched_rule_tokens |-> <<>>]
  ELSE
    LET found == match_at_all(parser, token_i, toks) IN
    IF found = <<>>
    THEN [err |-> TRUE, output |-> <<>>, last_matched_rule_tokens |-> <<>>]
    ELSE LET rule == parser.rules[found[1]]
             rest == transliterate_from(parser, toks, token_i + Len(rule.tokens))
         IN [err |-> rest.err,
             output |-> (IF rule.production = "" THEN <<>>
                         ELSE <<rule.production>>) \o rest.output,
             last_matched_rule_tokens |->
               <<rule.tokens>> \o rest.last_matched_rule_tokens]

transliterate(parser, input) ==
  transliterate_from(parser, parser_tokenize(parser, input), 1)

\* ---------------------------------------------------------------------
\* constrained parsers  (scanner/initialize.py _constrained_parsers_of)
\* constraints: a function from <<prev type, next type, prev production>>
\* to the set of forbidden next productions; the empty function when absent
\* ---------------------------------------------------------------------

NoConstraints == <<>>

constrained_parsers_of(cons) ==
  [key \in DOMAIN cons |->
     pruned_of(IF key[2] = "=" THEN long_parser ELSE short_parser, cons[key])]

\* ---------------------------------------------------------------------
\* default post-scan filter  (scanner/default.py filter_scans)
\* ---------------------------------------------------------------------

ScanResult(scan, matches, meter_key) ==
  [scan |-> scan, matches |-> matches, meter_key |-> meter_key]

COST_OF == ("-" :> 20) @@ ("=" :> 10) @@ ("_" :> 20)

RECURSIVE SumCosts(_)
SumCosts(scan) ==
  IF scan = <<>> THEN 0 ELSE COST_OF[Head(scan)] + SumCosts(Tail(scan))

\* cost_of(x) raises KeyError on a character outside _COST_OF
cost_raises(scan) == \E i \in 1..Len(scan) : scan[i] \notin DOMAIN COST_OF

cost_of(scans, x) == SumCosts(scans[x + 1].scan)

\* meters_found[meter_key]: the 0-based scan keys of that meter, in order
scan_keys_of(scans, meter_key) ==
  LET idx == SelectSeq([i \in 1..Len(scans) |-> i],
                       LAMBDA i : scans[i].meter_key = meter_key)
  IN [j \in 1..Len(idx) |-> idx[j] - 1]

\* "_, min_idx = min((cost_of(val), idx) for (idx, val) in enumerate(scan_keys))"
min_idx_of(scans, scan_keys) ==
  CHOOSE p \in 0..(Len(scan_keys) - 1) :
    \A q \in 0..(Len(scan_keys) - 1) :
      LET cp == cost_of(scans, scan_keys[p + 1])
          cq == cost_of(scans, scan_keys[q + 1])
      IN cp < cq \/ (cp = cq /\ p <= q)

\* one scan key set to None for a meter found more than once
dropped_keys_last_only(scans, meter_key) ==
  LET scan_keys == scan_keys_of(scans, meter_key)
  IN IF Len(scan_keys) < 2 THEN {} ELSE {scan_keys[Len(scan_keys)]}

\* the scan keys set to None for one meter
dropped_keys(scans, meter_key) ==
  LET scan_keys == scan_keys_of(scans, meter_key)
  IN IF Len(scan_keys) < 2 THEN {}
     ELSE {k \in Range(scan_keys) : k /= min_idx_of(scans, scan_keys)}

filter_scans(scans) ==
  IF Len(scans) < 2 THEN [err |-> FALSE, scans |-> scans]
  ELSE
    LET meter_keys == {scans[i].meter_key : i \in 1..Len(scans)}
        multi   == {m \in meter_keys : Len(scan_keys_of(scans, m)) >= 2}
        raises  == \E m \in multi : \E k \in Range(scan_keys_of(scans, m)) :
                     cost_raises(scans[k + 1].scan)
        dropped == UNION {dropped_keys(scans, m) : m \in multi}
        kept    == SelectSeq([i \in 1..Len(scans) |-> i],
                             LAMBDA i : (i - 1) \notin dropped)
    IN IF raises THEN [err |-> TRUE, scans |-> <<>>]
       ELSE [err |-> FALSE, scans |-> [j \in 1..Len(kept) |-> scans[kept[j]]]]

\* ---------------------------------------------------------------------
\* GraphParser  (graphparser/initialize.py, graphparser/graphparser.py)
\*
\* An input string is the sequence of its characters; TokenChars gives
\* the characters of each token.  A rule is the dict GraphParser.__init__
\* receives: its five token lists (empty when absent) and its production.
\* ---------------------------------------------------------------------

TokenChars ==
  ("a" :> <<"a">>) @@ ("b" :> <<"b">>) @@ (" " :> <<" ">>)
  @@ ("aa" :> <<"a", "a">>)

RECURSIVE sorted_by(_, _)
\* sorted(s, key=...) with keys[i] the key of s[i]: ascending and stable
sorted_by(s, keys) ==
  IF s = <<>> THEN <<>>
  ELSE LET m == CHOOSE i \in 1..Len(s) :
                  /\ \A j \in 1..Len(s) : keys[i] <= keys[j]
                  /\ \A j \in 1..(i - 1) : keys[j] > keys[i]
           drop(q) == SubSeq(q, 1, m - 1) \o SubSeq(q, m + 1, Len(q))
       IN <<s[m]>> \o sorted_by(drop(s), drop(keys))

tokens_of(tokens) == tokens

COST_OF_EXACT_TOKEN == -100
COST_OF_TOKEN_CLASS == -101

rule_cost_of(rule) ==
  COST_OF_TOKEN_CLASS * Len(rule.prev_classes)
  + COST_OF_EXACT_TOKEN * Len(rule.prev_tokens)
  + COST_OF_EXACT_TOKEN * Len(rule.tokens)
  + COST_OF_EXACT_TOKEN * Len(rule.next_tokens)
  + COST_OF_TOKEN_CLASS * Len(rule.next_classes)

parser_rule_of(rule) ==
  [production |-> rule.production,
   prev_classes |-> rule.prev_classes,
   prev_tokens |-> rule.prev_tokens,
   tokens |-> rule.tokens,
   next_tokens |-> rule.next_tokens,
   next_classes |-> rule.next_classes,
   cost |-> rule_cost_of(rule)]

\* sorted([_parser_rule_of(rule) for rule in rules], key=cost)
sorted_rules_of(rules) ==
  LET parser_rules == [i \in 1..Len(rules) |-> parser_rule_of(rules[i])]
  IN sorted_by(parser_rules, [i \in 1..Len(rules) |-> parser_rules[i].cost])

onmatch_rule_of(onmatch_rule) ==
  [prev_classes |-> onmatch_rule.prev_classes,
   next_classes |-> onmatch_rule.next_classes,
   production |-> onmatch_rule.production]

\* onmatch_lookup[token][prev_token]: the on-match rules whose first next
\* class is a class of token and whose last previous class is a class of
\* prev_token, in the order of the rules
onmatch_rules_lookup(tokens, onmatch_rules) ==
  [token_key \in DOMAIN tokens |->
    [prev_token_key \in DOMAIN tokens |->
      SelectSeq(onmatch_rules,
                LAMBDA rule :
                  /\ rule.next_classes[1] \in tokens[token_key]
                  /\ rule.prev_classes[Len(rule.prev_classes)]
                       \in tokens[prev_token_key])]]

whitespace_of(whitespace) ==
  [default |-> whitespace.default,
   token_class |-> whitespace.token_class,
   consolidate |-> whitespace.consolidate]

\* the alternatives of the tokenizer regex: the token keys, longest first
tokenizer_from(token_keys) ==
  sorted_by(token_keys,
            [i \in 1..Len(token_keys) |-> 0 - Len(TokenChars[token_keys[i]])])

\* ----- the rule graph -----

GraphParserGraph == [node |-> <<>>, edge |-> <<>>, edge_list |-> <<>>]

gp_add_edge(g, start, end, edge_data) ==
  [g EXCEPT !.edge = (<<start, end>> :> edge_data) @@ @,
            !.edge_list = Append(@, <<start, end>>)]

gp_add_node(g, node_data) == [g EXCEPT !.node = Append(@, node_data)]

GraphNode(type, token, key) ==
  [type |-> type, token |-> token, rule_key |-> key,
   accepting |-> (type = "rule"),
   token_children |-> <<>>, rule_children |-> <<>>,
   ordered_children |-> <<>>]

NoEdgeConstraints ==
  [prev_classes |-> <<>>, prev_tokens |-> <<>>,
   next_tokens |-> <<>>, next_classes |-> <<>>]

constraints_of(rule) ==
  [prev_classes |-> rule.prev_classes, prev_tokens |-> rule.prev_tokens,
   next_tokens |-> rule.next_tokens, next_classes |-> rule.next_classes]

RECURSIVE graph_add_tokens(_, _, _, _)
\* the loop over rule.tokens (initialize.py 165-186) from token i on
graph_add_tokens(g, rule, i, parent_key) ==
  IF i > Len(rule.tokens) THEN [graph |-> g, parent_key |-> parent_key]
  ELSE
    LET token == rule.tokens[i]
        token_children == g.node[parent_key + 1].token_children
        found == {c \in Range(token_children) : c.token = token}
        new_key == Len(g.node)
        token_node_key == IF found = {} THEN new_key
                          ELSE (CHOOSE c \in found : TRUE).key
        g1 == IF found = {}
              THEN [gp_add_edge(gp_add_node(g, GraphNode("token", token, None)),
                                parent_key, new_key,
                                [token |-> token, cost |-> 0,
                                 constraints |-> NoEdgeConstraints])
                    EXCEPT !.node[parent_key + 1].token_children =
                             Append(@, [token |-> token, key |-> new_key])]
              ELSE g
        curr_cost == g1.edge[<<parent_key, token_node_key>>].cost
        g2 == IF curr_cost > rule.cost
              THEN [g1 EXCEPT !.edge[<<parent_key, token_node_key>>].cost =
                                rule.cost]
              ELSE g1
    IN IF Len(g2.node) > 0     \* always true: makes TLC evaluate g2 here
       THEN graph_add_tokens(g2, rule, i + 1, token_node_key)
       ELSE [graph |-> g2, parent_key |-> token_node_key]

RECURSIVE graph_add_rules(_, _, _)
\* the loop over the rules (initialize.py 163-219) from rule_key on
graph_add_rules(g, rules, key) ==
  IF key >= Len(rules) THEN g
  ELSE
    LET rule == rules[key + 1]
        r == graph_add_tokens(g, rule, 1, 0)
        parent_key == r.parent_key
        rule_node_key == Len(r.graph.node)
        g1 == gp_add_node(r.graph, GraphNode("rule", "", key))
        rule_children ==
          Append(g1.node[parent_key + 1].rule_children, rule_node_key)
        g2 == [g1 EXCEPT !.node[parent_key + 1].rule_children =
                 sorted_by(rule_children,
                           [j \in 1..Len(rule_children) |->
                              rules[g1.node[rule_children[j] + 1].rule_key + 1].cost])]
        g3 == gp_add_edge(g2, parent_key, rule_node_key,
                          [token |-> "", cost |-> rule.cost,
                           constraints |-> constraints_of(rule)])
    IN IF Len(g3.node) > 0     \* always true: makes TLC evaluate g3 here
       THEN graph_add_rules(g3, rules, key + 1)
       ELSE g3

\* node['ordered_children'] (initialize.py 221-254)
ordered_children_of(g, node_key) ==
  LET node == g.node[node_key + 1]
      by_cost(keys) ==
        sorted_by(keys, [j \in 1..Len(keys) |-> g.edge[<<node_key, keys[j]>>].cost])
      key_of(token) ==
        (CHOOSE c \in Range(node.token_children) : c.token = token).key
      rules_part == IF node.rule_children /= <<>>
                    THEN ("__rules__" :> by_cost(node.rule_children))
                    ELSE <<>>
      token_part == [token \in {c.token : c \in Range(node.token_children)} |->
                       by_cost(<<key_of(token)>> \o node.rule_children)]
  IN IF node.token_children = <<>> THEN rules_part
     ELSE token_part @@ rules_part

graph_from(rules) ==
  LET g == graph_add_rules(gp_add_node(GraphParserGraph, GraphNode("root", "", None)),
                           rules, 0)
  IN [g EXCEPT !.node = [k \in 1..Len(g.node) |->
                           [g.node[k] EXCEPT !.ordered_children =
                                               ordered_children_of(g, k - 1)]]]

\* GraphParser.__init__ for settings that pass _validate_settings
GraphParser(settings) ==
  LET rules == sorted_rules_of(settings.rules)
      onmatch_rules == [i \in 1..Len(settings.onmatch_rules) |->
                          onmatch_rule_of(settings.onmatch_rules[i])]
  IN [tokens |-> tokens_of(settings.tokens),
      rules |-> rules,
      onmatch_rules |-> onmatch_rules,
      onmatch_rules_lookup |-> onmatch_rules_lookup(settings.tokens, onmatch_rules),
      whitespace |-> whitespace_of(settings.whitespace),
      tokenizer |-> tokenizer_from(settings.token_keys),
      graph |-> graph_from(rules)]

NoGraphParser ==
  [tokens |-> <<>>, rules |-> <<>>, onmatch_rules |-> <<>>,
   onmatch_rules_lookup |-> <<>>,
   whitespace |-> [default |-> "", token_class |-> "", consolidate |-> FALSE],
   tokenizer |-> <<>>, graph |-> GraphParserGraph]

\* ----- matching -----

\* GraphParser._match_tokens, on the token list tokens (_input_tokens)
match_tokens(gp, tokens, start_i, c_value, check_prev, check_next, by_class) ==
  IF check_prev /\ start_i < 0 THEN FALSE
  ELSE IF check_next /\ start_i + Len(c_value) > Len(tokens) THEN FALSE
  ELSE \A i \in 0..(Len(c_value) - 1) :
         IF by_class
         THEN c_value[i + 1] \in gp.tokens[tokens[start_i + i + 1]]
         ELSE tokens[start_i + i + 1] = c_value[i + 1]

\* GraphParser._match_constraints; token_i is the position after the
\* tokens consumed so far
match_constraints(gp, tokens, target_edge, token_i) ==
  LET constraints == target_edge.constraints
      prev_tokens == constraints.prev_tokens
      next_tokens == constraints.next_tokens
  IN /\ constraints.prev_tokens /= <<>> =>
          match_tokens(gp, tokens, token_i - 1 - Len(prev_tokens), prev_tokens,
                       TRUE, FALSE, FALSE)
     /\ constraints.next_tokens /= <<>> =>
          match_tokens(gp, tokens, token_i, next_tokens, FALSE, TRUE, FALSE)
     /\ constraints.prev_classes /= <<>> =>
          match_tokens(gp, tokens,
                       token_i - 1 - Len(prev_tokens) - Len(constraints.prev_classes),
                       constraints.prev_classes, TRUE, FALSE, TRUE)
     /\ constraints.next_classes /= <<>> =>
          match_tokens(gp, tokens, token_i + Len(next_tokens),
                       constraints.next_classes, FALSE, TRUE, TRUE)

Returned(key) == [raised |-> "", rule_key |-> key]
Raised(e) == [raised |-> e, rule_key |-> None]

RECURSIVE match_at_loop(_, _, _), match_at_edges(_, _, _, _, _, _, _)
\* the while loop of GraphParser._match_at (graphparser.py 184-213);
\* the stack is a sequence whose last element is popped first
match_at_loop(gp, tokens, match_stack) ==
  IF match_stack = <<>> THEN Raised("ValueError")
  ELSE
    LET top == match_stack[Len(match_stack)]
        node_key == top[1]
        tok_i == top[2]
        rest == SubSeq(match_stack, 1, Len(match_stack) - 1)
    IN IF ~(tok_i < Len(tokens)) THEN Raised("AssertionError")
       ELSE
         LET target_token == tokens[tok_i + 1]
             children == gp.graph.node[node_key + 1].ordered_children
         IN IF target_token \in DOMAIN children
            THEN match_at_edges(gp, tokens, node_key, tok_i,
                                children[target_token], 1, rest)
            ELSE IF "__rules__" \in DOMAIN children
            THEN match_at_edges(gp, tokens, node_key, tok_i,
                                children["__rules__"], 1, rest)
            ELSE Raised("TypeError")      \* for dest_key in None

\* the for loop over target_edges from its j-th element on
match_at_edges(gp, tokens, node_key, tok_i, target_edges, j, match_stack) ==
  IF j > Len(target_edges) THEN match_at_loop(gp, tokens, match_stack)
  ELSE
    LET dest_key == target_edges[j]
        target_edge == gp.graph.edge[<<node_key, dest_key>>]
    IN IF dest_key /= 0 /\ match_constraints(gp, tokens, target_edge, tok_i)
       THEN IF target_edge.token /= ""
            THEN match_at_edges(gp, tokens, node_key, tok_i, target_edges, j + 1,
                                Append(match_stack, <<dest_key, tok_i + 1>>))
            ELSE Returned(gp.graph.node[dest_key + 1].rule_key)
       ELSE match_at_edges(gp, tokens, node_key, tok_i, target_edges, j + 1,
                           match_stack)

\* GraphParser._match_at
match_at(gp, tokens, start_token_i) ==
  IF ~(start_token_i > 0) THEN Raised("AssertionError")
  ELSE match_at_loop(gp, tokens, << <<0, start_token_i>> >>)

\* ----- tokenize -----

is_whitespace(gp, token) == gp.whitespace.token_class \in gp.tokens[token]

IsPrefixAt(chars, str, pos) ==
  /\ pos + Len(chars) <= Len(str)
  /\ \A i \in 1..Len(chars) : str[pos + i] = chars[i]

\* self._tokenizer.match(input, pos): the first alternative that matches
tokenizer_match(tokenizer, str, pos) ==
  LET hits == {i \in 1..Len(tokenizer) : IsPrefixAt(TokenChars[tokenizer[i]], str, pos)}
  IN IF hits = {} THEN [found |-> FALSE, token |-> "", end |-> pos]
     ELSE LET i == CHOOSE h \in hits : \A k \in hits : h <= k
          IN [found |-> TRUE, token |-> tokenizer[i],
              end |-> pos + Len(TokenChars[tokenizer[i]])]

RECURSIVE tokenize_matches(_, _, _, _, _)
\* the loop over the matches (graphparser.py 341-350) from position pos
tokenize_matches(gp, str, pos, tokens, prev_whitespace) ==
  LET match == tokenizer_match(gp.tokenizer, str, pos)
  IN IF ~match.found THEN [tokens |-> tokens, end |-> pos]
     ELSE IF is_whitespace(gp, match.token)
     THEN IF prev_whitespace /\ gp.whitespace.consolidate
          THEN tokenize_matches(gp, str, match.end, tokens, prev_whitespace)
          ELSE tokenize_matches(gp, str, match.end, Append(tokens, match.token),
                                prev_whitespace)
     ELSE tokenize_matches(gp, str, match.end, Append(tokens, match.token), FALSE)

RECURSIVE pop_whitespace(_, _)
\* while is_whitespace(tokens[-1]): tokens.pop()
pop_whitespace(gp, tokens) ==
  IF tokens = <<>> THEN [raised |-> "IndexError", tokens |-> <<>>]
  ELSE IF is_whitespace(gp, tokens[Len(tokens)])
  THEN pop_whitespace(gp, SubSeq(tokens, 1, Len(tokens) - 1))
  ELSE [raised |-> "", tokens |-> tokens]

\* GraphParser.tokenize
tokenize(gp, str) ==
  LET matched == tokenize_matches(gp, str, 0, <<gp.whitespace.default>>, TRUE)
      popped == IF gp.whitespace.consolidate
                THEN pop_whitespace(gp, matched.tokens)
                ELSE [raised |-> "", tokens |-> matched.tokens]
      tokens == Append(popped.tokens, gp.whitespace.default)
  IN IF popped.raised /= "" THEN [raised |-> popped.raised, tokens |-> <<>>]
     ELSE IF Len(tokens) = 2 THEN [raised |-> "ValueError", tokens |-> <<>>]
     ELSE IF matched.end /= Len(str) THEN [raised |-> "ValueError", tokens |-> <<>>]
     ELSE [raised |-> "", tokens |-> tokens]

\* ----- on-match rules -----

RECURSIVE first_onmatch(_, _, _, _, _)
\* the loop over curr_match_rules (graphparser.py 267-282) from rule j on
first_onmatch(gp, tokens, tok_i, curr_match_rules, j) ==
  IF j > Len(curr_match_rules) THEN ""
  ELSE LET onmatch == curr_match_rules[j]
       IN IF /\ match_tokens(gp, tokens, tok_i - Len(onmatch.prev_classes),
                             onmatch.prev_classes, TRUE, FALSE, TRUE)
             /\ match_tokens(gp, tokens, tok_i, onmatch.next_classes,
                             FALSE, TRUE, TRUE)
          THEN onmatch.production
          ELSE first_onmatch(gp, tokens, tok_i, curr_match_rules, j + 1)

\* the production of the first candidate of the lookup, its class windows
\* unchecked
onmatch_production_unchecked(gp, tokens, input_toks, tok_i) ==
  IF gp.onmatch_rules = <<>> THEN ""
  ELSE LET curr_match_rules ==
             gp.onmatch_rules_lookup[tokens[tok_i + 1]][tokens[tok_i]]
       IN IF curr_match_rules = <<>> THEN "" ELSE curr_match_rules[1].production

\* what parse adds to output before the rule's production (262-282):
\* the lookup reads parse's tokens, _match_tokens reads _input_tokens
onmatch_production(gp, tokens, input_toks, tok_i) ==
  IF gp.onmatch_rules = <<>> THEN ""
  ELSE first_onmatch(gp, input_toks, tok_i,
                     gp.onmatch_rules_lookup[tokens[tok_i + 1]][tokens[tok_i]], 1)

RECURSIVE parse_loop(_, _, _, _)
\* the loop of GraphParser.parse (graphparser.py 257-286) run to its end by
\* one caller: _input_tokens stays the caller's own token list
parse_loop(gp, tokens, token_i, output) ==
  IF ~(token_i < Len(tokens) - 1) THEN [raised |-> "", output |-> output]
  ELSE LET r == match_at(gp, tokens, token_i)
           rule == gp.rules[r.rule_key + 1]
       IN IF r.raised /= "" THEN [raised |-> r.raised, output |-> ""]
          ELSE parse_loop(gp, tokens, token_i + Len(rule.tokens),
                          output \o onmatch_production(gp, tokens, tokens, token_i)
                                 \o rule.production)

\* GraphParser.parse called alone
parse(gp, str) ==
  LET r == tokenize(gp, str)
  IN IF r.raised /= "" THEN [raised |-> r.raised, output |-> ""]
     ELSE parse_loop(gp, r.tokens, 1, "")

\* ---------------------------------------------------------------------
\* Scanner  (scanner/scanner.py)
\* ---------------------------------------------------------------------

VARIABLES
  meters_list,          \* the regex_pattern of each meter, in list order
  constraints,          \* Scanner._constraints
  post_scan_filter,     \* "none" or "filter_scans"
  translation_graph,    \* Scanner._translation_graph, under construction
  meter_i,              \* the loop index of _meters_graph_of
  pc,                   \* "constructing", "ready", "scanning", "done",
                        \* "construct_error", "scan_error"
  first_only,           \* argument of the running scan
  transcription_tokens, \* locals of the running scan
  tokens,
  stack,
  completed_scans,
  continue_processing,
  iteration,            \* the ScanIteration popped by the last step
  parser,               \* the parser chosen by the last step
  scan_result,          \* the list returned by the last scan
  graph_parser,         \* the GraphParser built by GraphParser.__init__
  input_tokens,         \* GraphParser._input_tokens
  gp_input,             \* argument input of the running tokenize or parse
  gp_tokens,            \* the list returned by tokenize (parse's tokens)
  gp_token_i,           \* locals token_i, output, rule_key of the running parse
  gp_output,
  gp_rule_key,
  exception,            \* the exception raised by the call, "" if none
  scanner_args,         \* the arguments of a Scanner.__init__ not yet validated
  settings,             \* the arguments of a GraphParser.__init__ not yet validated
  calls                 \* the locals of each of two parse calls on one GraphParser

ScanIteration(node_key, parent_key, token_i, matches, matched_so_far) ==
  [node_key |-> node_key, parent_key |-> parent_key, token_i |-> token_i,
   matches |-> matches, matched_so_far |-> matched_so_far]

UnitMatch(type, rule_found, orig_tokens) ==
  [type |-> type, rule_found |-> rule_found, orig_tokens |-> orig_tokens]

NoIteration == ScanIteration(0 - 1, 0 - 1, 0, <<>>, <<>>)

is_accepting(node) == node.type = "Accepting"

NullParser == [tokens |-> {}, whitespace_tokens |-> {},
               whitespace |-> Whitespace, rules |-> <<>>]

\* special_parser() looking up the production of the first match of the
\* scan instead of the last one
special_parser_first_match(constrained_parsers, graph, parent_key, node_type, matches) ==
  IF DOMAIN constrained_parsers = {} \/ Len(matches) = 0
  THEN [none |-> TRUE, parser |-> NullParser]
  ELSE
    LET parent_type == TypeOf(graph, parent_key)
        key == IF parent_type = "_" /\ node_type = "="
               THEN <<parent_type, node_type, "*">>
               ELSE <<parent_type, node_type, matches[1].rule_found>>
    IN IF key \in DOMAIN constrained_parsers
       THEN [none |-> FALSE, parser |-> constrained_parsers[key]]
       ELSE [none |-> TRUE, parser |-> NullParser]

\* special_parser(): [none |-> TRUE] for None, else the constrained parser
special_parser(constrained_parsers, graph, parent_key, node_type, matches) ==
  IF DOMAIN constrained_parsers = {} \/ Len(matches) = 0
  THEN [none |-> TRUE, parser |-> NullParser]
  ELSE
    LET parent_type == TypeOf(graph, parent_key)
        key == IF parent_type = "_" /\ node_type = "="
               THEN <<parent_type, node_type, "*">>
               ELSE <<parent_type, node_type, matches[Len(matches)].rule_found>>
    IN IF key \in DOMAIN constrained_parsers
       THEN [none |-> FALSE, parser |-> constrained_parsers[key]]
       ELSE [none |-> TRUE, parser |-> NullParser]

\* "special_parser() or self._long_parser" / "... or self._short_parser"
parser_for(constrained_parsers, graph, parent_key, node_type, matches) ==
  LET special == special_parser(constrained_parsers, graph, parent_key,
                                node_type, matches)
  IN IF ~special.none THEN special.parser
     ELSE IF node_type = "=" THEN long_parser
     ELSE short_parser

\* orig_tokens of a match of n tokens at token_i
orig_tokens_of(trans_tokens, token_i, n) ==
  Concat([j \in 1..n |-> trans_tokens[token_i + j]])

\* the pushed iteration carrying the popped iteration's matched_so_far on
child_iteration_stale(it, node_type, rule, child_key, trans_tokens) ==
  ScanIteration(child_key, it.node_key, it.token_i + Len(rule.tokens),
                Append(it.matches,
                       UnitMatch(node_type, rule.production,
                                 orig_tokens_of(trans_tokens, it.token_i,
                                                Len(rule.tokens)))),
                it.matched_so_far)

\* the pushed iteration staying at the popped iteration's token_i
child_iteration_same_token(it, node_type, rule, child_key, trans_tokens) ==
  ScanIteration(child_key, it.node_key, it.token_i,
                Append(it.matches,
                       UnitMatch(node_type, rule.production,
                                 orig_tokens_of(trans_tokens, it.token_i,
                                                Len(rule.tokens)))),
                Append(it.matched_so_far, node_type))

\* the ScanIteration pushed for one matched rule and one child
\* (scanner.py 217-254)
child_iteration(it, node_type, rule, child_key, trans_tokens) ==
  ScanIteration(child_key, it.node_key, it.token_i + Len(rule.tokens),
                Append(it.matches,
                       UnitMatch(node_type, rule.production,
                                 orig_tokens_of(trans_tokens, it.token_i,
                                                Len(rule.tokens)))),
                Append(it.matched_so_far, node_type))

\* the iterations pushed for one popped iteration, in the order they end
\* up at the front of the deque
RECURSIVE pushed_iterations(_, _, _, _, _, _)
pushed_iterations(it, node_type, prs, rules_matched, children, trans_tokens) ==
  IF rules_matched = <<>> THEN <<>>
  ELSE
    LET rule == prs.rules[Head(rules_matched)]
        mine == [c \in 1..Len(children) |->
                   child_iteration(it, node_type, rule,
                                   children[Len(children) + 1 - c],
                                   trans_tokens)]
    IN mine \o pushed_iterations(it, node_type, prs, Tail(rules_matched),
                                 children, trans_tokens)

\* ---------------------------------------------------------------------
\* bounds and the inputs drawn from them
\* ---------------------------------------------------------------------

MaxMeters == 2
MaxInputLen == 4

\* the meter regexes the lists are drawn from
MeterPatterns ==
  { <<"-", "-">>,
    <<"(", "=", "|", "-", ")", "-">>,
    <<"-", "-", "-">>,
    <<"-", "_", "=">>,
    <<"=", "+">>,
    <<"-", "=">> }

RECURSIVE SeqsUpTo(_, _)
SeqsUpTo(S, n) ==
  IF n = 0 THEN {<<>>}
  ELSE LET shorter == SeqsUpTo(S, n - 1)
       IN shorter \cup {Append(q, x) : q \in {r \in shorter : Len(r) = n - 1}, x \in S}

MeterLists == SeqsUpTo(MeterPatterns, MaxMeters) \ {<<>>}

ConstraintChoices ==
  { NoConstraints,
    (<<"-", "-", "s<a>">> :> {"s<ba>", "s<a>"}),
    (<<"-", "-", "s<ba>">> :> {"s<ba>"}) @@ (<<"=", "-", "l<baa>">> :> {"s<a>"}),
    (<<"_", "=", "*">> :> {"l<aa>"}) }

\* raw input lines: at least one letter
Inputs ==
  {s \in SeqsUpTo({"A", " "}, MaxInputLen) : \E i \in 1..Len(s) : s[i] = "A"}

\* ---------------------------------------------------------------------
\* the Scanner as a state machine
\* ---------------------------------------------------------------------

vars == <<meters_list, constraints, post_scan_filter, translation_graph,
          meter_i, pc, first_only, transcription_tokens, tokens, stack,
          completed_scans, continue_processing, iteration, parser,
          scan_result, graph_parser, input_tokens, gp_input, gp_tokens,
          gp_token_i, gp_output, gp_rule_key, exception, scanner_args,
          settings, calls>>

parser_vars == <<graph_parser, input_tokens, gp_input, gp_tokens, gp_token_i,
                 gp_output, gp_rule_key, exception, settings, calls>>

scan_locals == <<first_only, transcription_tokens, tokens, stack,
                 completed_scans, continue_processing, iteration, parser>>

config == <<meters_list, constraints, post_scan_filter, scanner_args>>

\* no arguments are waiting to be validated, no parse call is running
NoArgs == <<>>
NoSettings == <<>>
NoCalls == <<>>

IdleScan ==
  /\ first_only = FALSE
  /\ transcription_tokens = <<>>
  /\ tokens = <<>>
  /\ stack = <<>>
  /\ completed_scans = <<>>
  /\ continue_processing = FALSE
  /\ iteration = NoIteration
  /\ parser = NullParser
  /\ scan_result = <<>>

\* no GraphParser is in use
IdleParser ==
  /\ graph_parser = NoGraphParser
  /\ input_tokens = <<>>
  /\ gp_input = <<>>
  /\ gp_tokens = <<>>
  /\ gp_token_i = 0
  /\ gp_output = ""
  /\ gp_rule_key = None
  /\ exception = ""
  /\ settings = NoSettings
  /\ calls = NoCalls

\* Scanner.__init__ up to the call of _meters_graph_of
Init ==
  /\ meters_list \in MeterLists
  /\ constraints \in ConstraintChoices
  /\ post_scan_filter = "none"
  /\ scanner_args = NoArgs
  /\ translation_graph = DirectedGraph
  /\ meter_i = 0
  /\ pc = "constructing"
  /\ IdleScan
  /\ IdleParser

\* one iteration of the loop of _meters_graph_of
MergeMeter ==
  /\ pc = "constructing"
  /\ meter_i < Len(meters_list)
  /\ LET r == merge_meter(translation_graph, meters_list[meter_i + 1], meter_i)
     IN IF r.outcome = "ok"
        THEN /\ translation_graph' = r.graph
             /\ meter_i' = meter_i + 1
             /\ pc' = pc
        ELSE /\ pc' = "construct_error"
             /\ UNCHANGED <<translation_graph, meter_i>>
  /\ UNCHANGED <<config, scan_locals, scan_result>>
  /\ UNCHANGED parser_vars

\* _meters_graph_of returns and Scanner.__init__ ends
Constructed ==
  /\ pc = "constructing"
  /\ meter_i = Len(meters_list)
  /\ pc' = "ready"
  /\ UNCHANGED <<config, translation_graph, meter_i, scan_locals, scan_result>>
  /\ UNCHANGED parser_vars

\* the deque after the loop over graph.edge[0] (scanner.py 157-163)
initial_stack(root_edges) ==
  [j \in 1..Len(root_edges) |->
     ScanIteration(root_edges[Len(root_edges) + 1 - j], 0, 0, <<>>, <<>>)]

\* Scanner.scan up to the work-list loop (scanner.py 142-164), for a
\* Scanner whose transcription parser is tp: transliterate raises
\* ValueError on a character that is no token, graph.edge[0] raises
\* KeyError when the root has no outgoing edge
ScanStartWith(tp, input, fo) ==
  /\ pc \in {"ready", "done"}
  /\ LET tr == transliterate(tp, input)
         ws == tp.whitespace.default
         root_edges == edge_of(translation_graph, 0)
     IN IF tr.err \/ root_edges = <<>>
        THEN /\ pc' = "scan_error"
             /\ exception' = IF tr.err THEN "ValueError" ELSE "KeyError"
             /\ UNCHANGED scan_locals
        ELSE /\ pc' = "scanning"
             /\ exception' = ""
             /\ first_only' = fo
             /\ transcription_tokens' =
                  << <<ws>> >> \o tr.last_matched_rule_tokens \o << <<ws>> >>
             /\ tokens' = parser_tokenize(long_parser, tr.output)
             /\ stack' = initial_stack(root_edges)
             /\ completed_scans' = <<>>
             /\ continue_processing' = TRUE
             /\ iteration' = NoIteration
             /\ parser' = NullParser
  /\ UNCHANGED <<config, translation_graph, meter_i, scan_result>>
  /\ UNCHANGED <<graph_parser, input_tokens, gp_input, gp_tokens, gp_token_i,
                 gp_output, gp_rule_key, settings, calls>>

ScanStart(input, fo) == ScanStartWith(transcription_parser, input, fo)

\* completed_scans after an accepting iteration (scanner.py 172-186)
completed_after(it, node, toks, completed) ==
  IF it.token_i = Len(toks) - 1
  THEN Append(completed, ScanResult(it.matched_so_far, it.matches, node.meter_key))
  ELSE completed

\* an accepting iteration that never ends the loop
continue_after_always(it, toks, fo) == TRUE

\* continue_processing after an accepting iteration (scanner.py 188-189)
continue_after(it, toks, fo) ==
  IF it.token_i = Len(toks) - 1 THEN ~fo ELSE TRUE

\* one pass of the work-list loop (scanner.py 165-255)
ScanStep ==
  /\ pc = "scanning"
  /\ continue_processing
  /\ Len(stack) > 0
  /\ LET it == Head(stack)
         node == translation_graph.node[it.node_key + 1]
         node_type == node.type
         prs == parser_for(constrained_parsers_of(constraints), translation_graph,
                           it.parent_key, node_type, it.matches)
         rules_matched == match_at_all(prs, it.token_i, tokens)
         children == edge_of(translation_graph, it.node_key)
     IN /\ iteration' = it
        /\ IF is_accepting(node)
           THEN /\ parser' = parser
                /\ stack' = Tail(stack)
                /\ completed_scans' =
                     completed_after(it, node, tokens, completed_scans)
                /\ continue_processing' = continue_after(it, tokens, first_only)
           ELSE /\ parser' = prs
                /\ stack' = pushed_iterations(it, node_type, prs, rules_matched,
                                              children, transcription_tokens)
                              \o Tail(stack)
                /\ UNCHANGED <<completed_scans, continue_processing>>
  /\ UNCHANGED <<config, translation_graph, meter_i, pc, first_only,
                 transcription_tokens, tokens, scan_result>>
  /\ UNCHANGED parser_vars

\* the end of Scanner.scan (scanner.py 256-259)
ScanFinish ==
  /\ pc = "scanning"
  /\ ~(continue_processing /\ Len(stack) > 0)
  /\ LET filtered == filter_scans(completed_scans)
     IN IF Len(completed_scans) > 0 /\ post_scan_filter = "filter_scans"
        THEN IF filtered.err
             THEN pc' = "scan_error" /\ UNCHANGED scan_result
             ELSE pc' = "done" /\ scan_result' = filtered.scans
        ELSE pc' = "done" /\ scan_result' = completed_scans
  /\ UNCHANGED <<config, translation_graph, meter_i, scan_locals>>
  /\ UNCHANGED parser_vars

Next ==
  \/ MergeMeter
  \/ Constructed
  \/ \E input \in Inputs : ScanStart(input, FALSE)
  \/ ScanStep
  \/ ScanFinish

Spec == Init /\ [][Next]_vars

\* ---------------------------------------------------------------------
\* reference semantics used by the properties: the language of a meter
\* regex, read off the regex itself by recursive descent.  XEnds(r, i, str,
\* S) is the set of positions of str at which a match of the expression at
\* index i of r can end when it starts at a position of S.
\* ---------------------------------------------------------------------

RECURSIVE AltEnds(_, _, _, _), CatEnds(_, _, _, _), RepEnds(_, _, _, _, _),
          AtomEnds(_, _, _, _), AtomNext(_, _), CatNext(_, _), AltNext(_, _),
          ClosureEnds(_, _, _, _, _, _)

\* index just after the atom starting at i
AtomNext(r, i) == IF r[i] = "(" THEN AltNext(r, i + 1) + 1 ELSE i + 1

\* index just after the atom at i and its postfix operators
RepNext(r, i) ==
  LET j == AtomNext(r, i)
      ops == {k \in j..Len(r) : \A m \in j..k : r[m] \in {"*", "+", "?"}}
  IN j + Cardinality(ops)

CatNext(r, i) ==
  IF i > Len(r) \/ r[i] \in {"|", ")"} THEN i ELSE CatNext(r, RepNext(r, i))

AltNext(r, i) ==
  LET j == CatNext(r, i)
  IN IF j <= Len(r) /\ r[j] = "|" THEN AltNext(r, j + 1) ELSE j

AtomEnds(r, i, str, S) ==
  IF r[i] = "(" THEN AltEnds(r, i + 1, str, S)
  ELSE {p + 1 : p \in {q \in S : q < Len(str) /\ str[q + 1] = r[i]}}

\* one or more repetitions of the atom at i with its first k operators
ClosureEnds(r, i, k, str, acc, frontier) ==
  LET new == RepEnds(r, i, k, str, frontier) \ acc
  IN IF new = {} THEN acc
     ELSE ClosureEnds(r, i, k, str, acc \cup new, new)

\* the atom at i followed by its first k postfix operators
RepEnds(r, i, k, str, S) ==
  IF k = 0 THEN AtomEnds(r, i, str, S)
  ELSE LET op == r[AtomNext(r, i) + k - 1]
           once == RepEnds(r, i, k - 1, str, S)
       IN CASE op = "?" -> S \cup once
            [] op = "+" -> ClosureEnds(r, i, k - 1, str, once, once)
            [] op = "*" -> S \cup ClosureEnds(r, i, k - 1, str, once, once)

CatEnds(r, i, str, S) ==
  IF i > Len(r) \/ r[i] \in {"|", ")"} THEN S
  ELSE CatEnds(r, RepNext(r, i), str,
               RepEnds(r, i, RepNext(r, i) - AtomNext(r, i), str, S))

AltEnds(r, i, str, S) ==
  LET j == CatNext(r, i)
  IN CatEnds(r, i, str, S)
       \cup (IF j <= Len(r) /\ r[j] = "|" THEN AltEnds(r, j + 1, str, S) ELSE {})

\* str matches the regex end-to-end
Matches(regex, str) == Len(str) \in AltEnds(regex, 1, str, {0})

\* ---------------------------------------------------------------------
\* reference semantics used by the properties: what a line could realise
\* ---------------------------------------------------------------------

NoUnit == [type |-> "", rule_found |-> ""]

\* may a unit (t, production) follow the unit prev under the constraints
Permitted(cons, prev, t, production) ==
  \/ prev = NoUnit
  \/ /\ \/ <<prev.type, t, prev.rule_found>> \notin DOMAIN cons
        \/ production \notin cons[<<prev.type, t, prev.rule_found>>]
     /\ \/ ~(prev.type = "_" /\ t = "=")
        \/ <<"_", "=", "*">> \notin DOMAIN cons
        \/ production \notin cons[<<"_", "=", "*">>]

BaseParser(t) == IF t = "=" THEN long_parser ELSE short_parser

\* the symbol strings spelled by the sequences of long/short rule matches
\* that take position pos to the final whitespace sentinel
RECURSIVE Spellings(_, _, _, _)
Spellings(toks, pos, prev, cons) ==
  IF pos = Len(toks) - 1 THEN {<<>>}
  ELSE IF pos > Len(toks) - 1 THEN {}
  ELSE UNION {
         UNION {
           {<<t>> \o rest :
              rest \in Spellings(toks, pos + Len(BaseParser(t).rules[k].tokens),
                                 [type |-> t,
                                  rule_found |-> BaseParser(t).rules[k].production],
                                 cons)} :
           k \in {j \in 1..Len(BaseParser(t).rules) :
                    /\ rule_matches_at(BaseParser(t).rules[j], pos, toks)
                    /\ Permitted(cons, prev, t, BaseParser(t).rules[j].production)}
         } : t \in {"=", "-", "_"} }

\* ---------------------------------------------------------------------
\* properties of the Scanner (specification Spec)
\* ---------------------------------------------------------------------

\* C1: every ScanResult's scan is a string over {=,-,_} that matches
\* end-to-end the regex of the meter named by its meter_key.
C1_ScanMatchesItsMeter ==
  \A i \in 1..Len(completed_scans) :
    LET r == completed_scans[i]
    IN /\ Range(r.scan) \subseteq {"=", "-", "_"}
       /\ r.meter_key \in 0..(Len(meters_list) - 1)
       /\ Matches(meters_list[r.meter_key + 1], r.scan)

\* C2: when a scan (no filter, first_only unset) has returned, every meter
\* whose regex matches some symbol string the long/short rules can spell for
\* the line, under the constraints, is reported by a ScanResult.
C2_EveryRealisableMeterReported ==
  (pc = "done" /\ ~first_only /\ post_scan_filter = "none") =>
    \A m \in 1..Len(meters_list) :
      (\E sp \in Spellings(tokens, 0, NoUnit, constraints) :
         Matches(meters_list[m], sp))
      => \E i \in 1..Len(scan_result) : scan_result[i].meter_key = m - 1

AcceptingNodesOf(g, m) ==
  {k \in NodeKeys(g) : g.node[k + 1].type = "Accepting" /\ g.node[k + 1].meter_key = m}

\* C4: every meter merged so far contributes exactly one accepting node,
\* carrying its meter_key, and no two accepting nodes share a meter_key.
C4_OneAcceptingNodePerMeter ==
  \A m \in 0..(meter_i - 1) :
    Cardinality(AcceptingNodesOf(translation_graph, m)) = 1

\* the consecutive unit matches of a scan respect the constraints
PairsPermitted(matches) ==
  \A j \in 1..(Len(matches) - 1) :
    Permitted(constraints,
              [type |-> matches[j].type, rule_found |-> matches[j].rule_found],
              matches[j + 1].type, matches[j + 1].rule_found)

\* C10: no ScanResult contains two consecutive unit matches that the
\* constraints forbid (by previous production, or by the wildcard of the
\* pair (_, =)), and the parser used for the first unit of a scan is the
\* unconstrained long or short parser.
C10_ConstraintsEnforced ==
  /\ \A i \in 1..Len(completed_scans) : PairsPermitted(completed_scans[i].matches)
  /\ (/\ pc = "scanning"
      /\ iteration /= NoIteration
      /\ Len(iteration.matches) = 0
      /\ TypeOf(translation_graph, iteration.node_key) /= "Accepting")
     => parser = BaseParser(TypeOf(translation_graph, iteration.node_key))

\* C10 witness: a completed scan in which a constrained parser was selected
\* for a unit, and a first unit was matched while constraints are present
C10_Witness ==
  /\ DOMAIN constraints /= {}
  /\ \E i \in 1..Len(completed_scans) :
       LET ms == completed_scans[i].matches
       IN \E j \in 1..(Len(ms) - 1) :
            <<ms[j].type, ms[j + 1].type, ms[j].rule_found>> \in DOMAIN constraints

\* ---------------------------------------------------------------------
\* the default post-scan filter applied to a list of scan results
\* (specification SpecFilter): completed_scans is the list handed to
\* filter_scans and scan_result the list it returns
\* ---------------------------------------------------------------------

MaxScans == 3
MaxMeterKey == 1

ScanStrings == { <<"=", "=">>, <<"-", "-", "=", "=">>, <<"-", "=">>, <<"=">> }

FilterInputs ==
  SeqsUpTo({ScanResult(sc, <<>>, m) : sc \in ScanStrings, m \in 0..MaxMeterKey},
           MaxScans)

InitFilter ==
  /\ meters_list = <<>>
  /\ constraints = NoConstraints
  /\ post_scan_filter = "filter_scans"
  /\ scanner_args = NoArgs
  /\ translation_graph = DirectedGraph
  /\ meter_i = 0
  /\ pc = "filter_call"
  /\ first_only = FALSE
  /\ transcription_tokens = <<>>
  /\ tokens = <<>>
  /\ stack = <<>>
  /\ completed_scans \in FilterInputs
  /\ continue_processing = FALSE
  /\ iteration = NoIteration
  /\ parser = NullParser
  /\ scan_result = <<>>
  /\ IdleParser

\* filter_scans(scans)
FilterScans ==
  /\ pc = "filter_call"
  /\ LET filtered == filter_scans(completed_scans)
     IN IF filtered.err
        THEN pc' = "filter_error" /\ UNCHANGED scan_result
        ELSE pc' = "filter_return" /\ scan_result' = filtered.scans
  /\ UNCHANGED <<config, translation_graph, meter_i, scan_locals>>
  /\ UNCHANGED parser_vars

NextFilter == FilterScans

SpecFilter == InitFilter /\ [][NextFilter]_vars

\* the cost of a scan string as the filter scores it
ScanCost(scan) == SumCosts(scan)

\* C3: the filter returns, for every meter_key of its input, exactly one
\* result of that meter_key, and it is one of minimum cost among the input
\* results of that meter_key.
C3_OneMinimumCostScanPerMeter ==
  pc = "filter_return" =>
    \A i \in 1..Len(completed_scans) :
      LET m    == completed_scans[i].meter_key
          outs == {j \in 1..Len(scan_result) : scan_result[j].meter_key = m}
      IN /\ Cardinality(outs) = 1
         /\ \A j \in outs :
              /\ \E k \in 1..Len(completed_scans) : completed_scans[k] = scan_result[j]
              /\ \A k \in 1..Len(completed_scans) :
                   completed_scans[k].meter_key = m
                   => ScanCost(scan_result[j].scan) <= ScanCost(completed_scans[k].scan)

\* ---------------------------------------------------------------------
\* a GraphParser in use (specification SpecParser): one call of tokenize
\* or of parse on a parser built from one of the settings below
\* ---------------------------------------------------------------------

MaxParseLen == 4

\* "B" is a character of no token
ParserChars == {"a", "b", " ", "B"}

ParserInputs == SeqsUpTo(ParserChars, MaxParseLen)

Rule(prev_classes, prev_tokens, toks, next_tokens, next_classes, production) ==
  [prev_classes |-> prev_classes, prev_tokens |-> prev_tokens, tokens |-> toks,
   next_tokens |-> next_tokens, next_classes |-> next_classes,
   production |-> production]

OnMatch(prev_classes, next_classes, production) ==
  [prev_classes |-> prev_classes, next_classes |-> next_classes,
   production |-> production]

Settings(toks, token_keys, rules, onmatch_rules, consolidate) ==
  [tokens |-> toks, token_keys |-> token_keys, rules |-> rules,
   onmatch_rules |-> onmatch_rules,
   whitespace |-> [default |-> " ", token_class |-> "wb",
                   consolidate |-> consolidate]]

TokensAB ==
  ("a" :> {"class_a"}) @@ ("b" :> {"class_b"}) @@ (" " :> {"wb"})

TokensAA == TokensAB @@ ("aa" :> {"class_a"})

\* a: A, b: B, ' ': _
BaseRules ==
  << Rule(<<>>, <<>>, <<"a">>, <<>>, <<>>, "A"),
     Rule(<<>>, <<>>, <<"b">>, <<>>, <<>>, "B"),
     Rule(<<>>, <<>>, <<" ">>, <<>>, <<>>, "_") >>

\* the constrained and the longer rules added to the base rules
ExtraRules ==
  { Rule(<<>>, <<"a">>, <<"a">>, <<>>, <<>>, "1"),                \* (a) a
    Rule(<<>>, <<>>, <<"a">>, <<"a">>, <<>>, "2"),                \* a (a)
    Rule(<<"class_a">>, <<"a">>, <<"a">>, <<>>, <<>>, "3"),       \* (<class_a> a) a
    Rule(<<>>, <<>>, <<"a">>, <<"a">>, <<"class_a">>, "4"),       \* a (a <class_a>)
    Rule(<<"class_b">>, <<>>, <<"b">>, <<>>, <<>>, "5"),          \* (<class_b>) b
    Rule(<<>>, <<>>, <<"b">>, <<>>, <<"class_b">>, "6"),          \* b (<class_b>)
    Rule(<<>>, <<>>, <<"a", "b">>, <<>>, <<>>, "7"),              \* a b
    Rule(<<"wb">>, <<>>, <<"a">>, <<>>, <<>>, "8"),               \* (<wb>) a
    Rule(<<>>, <<>>, <<"a", "a">>, <<"b">>, <<>>, "9"),           \* a a (b)
    Rule(<<>>, <<>>, <<"a", "a">>, <<>>, <<"class_b">>, "0") }    \* a a (<class_b>)

\* rule lists in which some token has no rule of its own
PartialRules ==
  { << Rule(<<>>, <<>>, <<"a", "b">>, <<>>, <<>>, "7"),
       Rule(<<>>, <<>>, <<"b">>, <<>>, <<>>, "B") >>,
    << Rule(<<>>, <<"b">>, <<"a", "a">>, <<>>, <<>>, "X"),        \* (b) a a
       Rule(<<>>, <<>>, <<"b">>, <<>>, <<>>, "B"),
       Rule(<<>>, <<>>, <<" ">>, <<>>, <<>>, "_") >>,
    << Rule(<<"class_b">>, <<>>, <<"a", "a">>, <<>>, <<>>, "Y"),  \* (<class_b>) a a
       Rule(<<>>, <<>>, <<"b">>, <<>>, <<>>, "B") >>,
    << Rule(<<>>, <<>>, <<"a", " ">>, <<>>, <<>>, "Z"),           \* a ' '
       Rule(<<>>, <<>>, <<"b">>, <<>>, <<>>, "B") >> }

\* two rules for the same tokens with one constraint each, by exact token
\* and by token class, in both input orders
SpecificityRules ==
  { BaseRules \o << Rule(<<>>, <<>>, <<"a", "a">>, <<"b">>, <<>>, "9"),
                    Rule(<<>>, <<>>, <<"a", "a">>, <<>>, <<"class_b">>, "0") >>,
    BaseRules \o << Rule(<<>>, <<>>, <<"a", "a">>, <<>>, <<"class_b">>, "0"),
                    Rule(<<>>, <<>>, <<"a", "a">>, <<"b">>, <<>>, "9") >> }

\* a b: 7, b: B, ' ': _
TwoTokenRules ==
  << Rule(<<>>, <<>>, <<"a", "b">>, <<>>, <<>>, "7"),
     Rule(<<>>, <<>>, <<"b">>, <<>>, <<>>, "B"),
     Rule(<<>>, <<>>, <<" ">>, <<>>, <<>>, "_") >>

\* the on-match rules of test_graphparser_parse, and a list in which two
\* rules fit at the same place
OnMatchChoices ==
  { <<>>,
    << OnMatch(<<"class_a", "class_b">>, <<"class_a">>, "!"),
       OnMatch(<<"class_a">>, <<"class_b">>, ","),
       OnMatch(<<"wb">>, <<"class_a", "class_b", "class_a">>, "$") >>,
    << OnMatch(<<"wb">>, <<"class_a", "class_b">>, "$"),
       OnMatch(<<"wb">>, <<"class_a">>, "^"),
       OnMatch(<<"class_a">>, <<"class_b">>, ","),
       OnMatch(<<"class_b", "class_a">>, <<"class_b">>, ";") >> }

GraphParserSettings ==
  { Settings(TokensAB, <<"a", "b", " ">>, BaseRules \o <<e>>, <<>>, TRUE) :
      e \in ExtraRules }
  \cup { Settings(TokensAB, <<"a", "b", " ">>, BaseRules, om, c) :
           om \in OnMatchChoices, c \in BOOLEAN }
  \cup { Settings(TokensAB, <<"a", "b", " ">>, TwoTokenRules, om, TRUE) :
           om \in OnMatchChoices }
  \cup { Settings(TokensAB, <<"a", "b", " ">>, rs, <<>>, TRUE) : rs \in PartialRules }
  \cup { Settings(TokensAB, <<"a", "b", " ">>, rs, <<>>, TRUE) : rs \in SpecificityRules }
  \cup { Settings(TokensAA, <<"a", "aa", "b", " ">>,
                  BaseRules \o << Rule(<<>>, <<>>, <<"aa">>, <<>>, <<>>, "AA") >>,
                  <<>>, TRUE) }

scanner_vars == <<config, translation_graph, meter_i, scan_locals, scan_result>>

\* the state after GraphParser.__init__
InitParser ==
  /\ meters_list = <<>>
  /\ constraints = NoConstraints
  /\ post_scan_filter = "none"
  /\ scanner_args = NoArgs
  /\ translation_graph = DirectedGraph
  /\ meter_i = 0
  /\ IdleScan
  /\ pc = "parser_ready"
  /\ graph_parser \in {GraphParser(s) : s \in GraphParserSettings}
  /\ input_tokens = <<>>
  /\ gp_input = <<>>
  /\ gp_tokens = <<>>
  /\ gp_token_i = 0
  /\ gp_output = ""
  /\ gp_rule_key = None
  /\ exception = ""
  /\ settings = NoSettings
  /\ calls = NoCalls

\* GraphParser.tokenize(str)
Tokenize(str) ==
  /\ pc = "parser_ready"
  /\ gp_input' = str
  /\ LET r == tokenize(graph_parser, str)
     IN IF r.raised /= ""
        THEN pc' = "tokenize_raise" /\ exception' = r.raised /\ UNCHANGED gp_tokens
        ELSE pc' = "tokenize_return" /\ gp_tokens' = r.tokens /\ UNCHANGED exception
  /\ UNCHANGED <<scanner_vars, graph_parser, input_tokens, gp_token_i, gp_output,
                 gp_rule_key, settings, calls>>

\* GraphParser.parse(str) up to its loop (graphparser.py 252-255)
ParseStart(str) ==
  /\ pc = "parser_ready"
  /\ gp_input' = str
  /\ LET r == tokenize(graph_parser, str)
     IN IF r.raised /= ""
        THEN /\ pc' = "tokenize_raise"
             /\ exception' = r.raised
             /\ UNCHANGED <<gp_tokens, input_tokens, gp_token_i, gp_output>>
        ELSE /\ pc' = "parse_loop"
             /\ gp_tokens' = r.tokens
             /\ input_tokens' = r.tokens
             /\ gp_output' = ""
             /\ gp_token_i' = 1
             /\ UNCHANGED exception
  /\ UNCHANGED <<scanner_vars, graph_parser, gp_rule_key, settings, calls>>

\* one pass of the loop of parse (graphparser.py 257-286)
ParseStep ==
  /\ pc = "parse_loop"
  /\ gp_token_i < Len(gp_tokens) - 1
  /\ LET r == match_at(graph_parser, input_tokens, gp_token_i)
         rule == graph_parser.rules[r.rule_key + 1]
     IN IF r.raised /= ""
        THEN /\ pc' = "parse_raise"
             /\ exception' = r.raised
             /\ UNCHANGED <<gp_token_i, gp_output, gp_rule_key>>
        ELSE /\ gp_rule_key' = r.rule_key
             /\ gp_output' = gp_output \o onmatch_production(graph_parser, gp_tokens,
                                                    input_tokens, gp_token_i)
                                 \o rule.production
             /\ gp_token_i' = gp_token_i + Len(rule.tokens)
             /\ UNCHANGED <<pc, exception>>
  /\ UNCHANGED <<scanner_vars, graph_parser, input_tokens, gp_input, gp_tokens,
                 settings, calls>>

\* parse returns output
ParseReturn ==
  /\ pc = "parse_loop"
  /\ ~(gp_token_i < Len(gp_tokens) - 1)
  /\ pc' = "parse_return"
  /\ UNCHANGED <<scanner_vars, parser_vars>>

NextParser ==
  \/ \E str \in ParserInputs : Tokenize(str)
  \/ \E str \in ParserInputs : ParseStart(str)
  \/ ParseStep
  \/ ParseReturn

SpecParser == InitParser /\ [][NextParser]_vars

\* ---------------------------------------------------------------------
\* reference semantics of rule matching, read off the rule itself: s is
\* the position of the rule's first central token in the token list
\* ---------------------------------------------------------------------

\* toks[from .. from + Len(want) - 1] lies in the list and equals want
TokensAt(toks, from, want) ==
  /\ from >= 0
  /\ from + Len(want) <= Len(toks)
  /\ \A i \in 1..Len(want) : toks[from + i] = want[i]

\* toks[from .. from + Len(classes) - 1] lies in the list and each token
\* has the class asked of it
ClassesAt(gp, toks, from, classes) ==
  /\ from >= 0
  /\ from + Len(classes) <= Len(toks)
  /\ \A i \in 1..Len(classes) : classes[i] \in gp.tokens[toks[from + i]]

CentralTokensAt(rule, toks, s) == TokensAt(toks, s, rule.tokens)

ContextHolds(gp, rule, toks, s) ==
  LET e == s + Len(rule.tokens)
  IN /\ TokensAt(toks, s - Len(rule.prev_tokens), rule.prev_tokens)
     /\ ClassesAt(gp, toks, s - Len(rule.prev_tokens) - Len(rule.prev_classes),
                  rule.prev_classes)
     /\ TokensAt(toks, e, rule.next_tokens)
     /\ ClassesAt(gp, toks, e + Len(rule.next_tokens), rule.next_classes)

Applicable(gp, rule, toks, s) ==
  CentralTokensAt(rule, toks, s) /\ ContextHolds(gp, rule, toks, s)

\* a call of parse is in or past its loop
Parsing == pc \in {"parse_loop", "parse_return", "parse_raise"}

\* C5: the rule match_at returned at a position is applicable there (its
\* central tokens are the tokens from that position on and its context is
\* satisfied) and no applicable rule has a lower cost; so of the rules
\* 'a b' and 'a' the two-token rule is returned where both apply.
C5_MatchAtReturnsBestRule ==
  (Parsing /\ gp_rule_key /= None) =>
    LET rule == graph_parser.rules[gp_rule_key + 1]
        s == gp_token_i - Len(rule.tokens)
    IN /\ Applicable(graph_parser, rule, input_tokens, s)
       /\ \A k \in 1..Len(graph_parser.rules) :
            Applicable(graph_parser, graph_parser.rules[k], input_tokens, s)
            => rule.cost <= graph_parser.rules[k].cost

\* C6: where parse is about to match, for every rule whose central tokens
\* are the tokens from the current position on, the check of its rule
\* edge's constraints (made with the position after the central tokens)
\* succeeds exactly when its context lists match the tokens adjacent to
\* the central tokens, a window leaving the token list failing.
C6_ContextMatchedAdjacent ==
  (pc = "parse_loop" /\ gp_token_i < Len(gp_tokens) - 1) =>
    \A k \in 1..Len(graph_parser.rules) :
      LET rule == graph_parser.rules[k]
      IN CentralTokensAt(rule, input_tokens, gp_token_i) =>
           (match_constraints(graph_parser, input_tokens,
                              [constraints |-> constraints_of(rule)],
                              gp_token_i + Len(rule.tokens))
            <=> ContextHolds(graph_parser, rule, input_tokens, gp_token_i))

\* the call of tokenize (alone or at the start of parse) returned a list
Tokenized == pc \in {"tokenize_return", "parse_loop", "parse_return", "parse_raise"}

NonWhitespace(gp, toks) == SelectSeq(toks, LAMBDA t : ~is_whitespace(gp, t))

\* the tokens of str as the tokenizer cuts them, whitespace included
RECURSIVE RawTokens(_, _, _)
RawTokens(gp, str, pos) ==
  LET match == tokenizer_match(gp.tokenizer, str, pos)
  IN IF match.found THEN <<match.token>> \o RawTokens(gp, str, match.end) ELSE <<>>

\* C7: with consolidate set the list tokenize returns has no two adjacent
\* whitespace tokens, starts and ends with the default whitespace token,
\* and keeps the other tokens of the input in order.
C7_WhitespaceConsolidated ==
  (Tokenized /\ graph_parser.whitespace.consolidate) =>
    /\ \A i \in 1..(Len(gp_tokens) - 1) :
         ~(is_whitespace(graph_parser, gp_tokens[i])
           /\ is_whitespace(graph_parser, gp_tokens[i + 1]))
    /\ gp_tokens[1] = graph_parser.whitespace.default
    /\ gp_tokens[Len(gp_tokens)] = graph_parser.whitespace.default
    /\ NonWhitespace(graph_parser, gp_tokens)
         = NonWhitespace(graph_parser, RawTokens(graph_parser, gp_input, 0))

RECURSIVE Segments(_, _, _)
\* str from pos on is a concatenation of tokens
Segments(gp, str, pos) ==
  \/ pos = Len(str)
  \/ \E t \in DOMAIN gp.tokens :
       /\ IsPrefixAt(TokenChars[t], str, pos)
       /\ Segments(gp, str, pos + Len(TokenChars[t]))

\* str has a character no token consumes, or no token other than
\* whitespace
Untokenizable(gp, str) ==
  \/ ~Segments(gp, str, 0)
  \/ NonWhitespace(gp, RawTokens(gp, str, 0)) = <<>>

CallEnded == pc /= "parser_ready"

\* C8: a call of tokenize on an input with an unconsumable character, on
\* the empty input or on whitespace alone ends with ValueError, for both
\* settings of consolidate: it returns no list and raises nothing else.
C8_TokenizeRejectsWithValueError ==
  (CallEnded /\ Untokenizable(graph_parser, gp_input)) =>
    (pc = "tokenize_raise" /\ exception = "ValueError")

\* the on-match rule at index j fits at position s
OnMatchFits(gp, toks, j, s) ==
  LET onmatch == gp.onmatch_rules[j]
  IN /\ ClassesAt(gp, toks, s - Len(onmatch.prev_classes), onmatch.prev_classes)
     /\ ClassesAt(gp, toks, s, onmatch.next_classes)

\* the production of the first on-match rule that fits at s, "" if none
ExpectedOnMatch(gp, toks, s) ==
  LET fits == {j \in 1..Len(gp.onmatch_rules) : OnMatchFits(gp, toks, j, s)}
  IN IF fits = {} THEN ""
     ELSE gp.onmatch_rules[CHOOSE j \in fits : \A k \in fits : j <= k].production

\* C9: every pass of the loop of parse that matches a rule appends to the
\* output the production of the first on-match rule, in input order,
\* whose prev_classes match the tokens ending before the current position
\* and whose next_classes match the tokens from it on (nothing if no rule
\* fits), directly followed by the production of the matched rule.
C9_OneOnMatchBeforeRule ==
  [][(pc = "parse_loop" /\ pc' = "parse_loop" /\ gp_token_i' /= gp_token_i) =>
       gp_output' = gp_output
                    \o ExpectedOnMatch(graph_parser, gp_tokens, gp_token_i)
                    \o graph_parser.rules[gp_rule_key' + 1].production]_vars

\* C9 witness: parse of 'aba' with the on-match rules of the tests has
\* returned '$A,B!A': an on-match production before each rule production
C9_Witness ==
  /\ pc = "parse_return"
  /\ gp_input = <<"a", "b", "a">>
  /\ Len(graph_parser.onmatch_rules) = 3
  /\ gp_output = "$A,B!A"

\* ---------------------------------------------------------------------
\* two calls of parse on one GraphParser, their steps interleaved
\* (specification SpecInterleaved): tokens, token_i and output are locals
\* of each call, self._input_tokens belongs to the parser
\* ---------------------------------------------------------------------

MaxCallLen == 2

Callers == {1, 2}

CallInputs == SeqsUpTo({"a", "b"}, MaxCallLen)

SharedParserSettings ==
  { Settings(TokensAB, <<"a", "b", " ">>, BaseRules \o <<e>>, <<>>, TRUE) :
      e \in {r \in ExtraRules : r.production \in {"1", "6", "7"}} }
  \cup { Settings(TokensAB, <<"a", "b", " ">>, BaseRules, om, TRUE) :
           om \in OnMatchChoices }

Call(call_pc, input, toks, token_i, output, raised) ==
  [pc |-> call_pc, input |-> input, tokens |-> toks, token_i |-> token_i,
   output |-> output, exception |-> raised]

NotCalled == Call("not_called", <<>>, <<>>, 0, "", "")

\* the state after GraphParser.__init__, no call made yet
InitInterleaved ==
  /\ meters_list = <<>>
  /\ constraints = NoConstraints
  /\ post_scan_filter = "none"
  /\ scanner_args = NoArgs
  /\ translation_graph = DirectedGraph
  /\ meter_i = 0
  /\ IdleScan
  /\ pc = "parser_shared"
  /\ graph_parser \in {GraphParser(s) : s \in SharedParserSettings}
  /\ input_tokens = <<>>
  /\ gp_input = <<>>
  /\ gp_tokens = <<>>
  /\ gp_token_i = 0
  /\ gp_output = ""
  /\ gp_rule_key = None
  /\ exception = ""
  /\ settings = NoSettings
  /\ calls = [c \in Callers |-> NotCalled]

interleaved_unchanged ==
  <<scanner_vars, pc, graph_parser, gp_input, gp_tokens, gp_token_i, gp_output,
    gp_rule_key, exception, settings>>

\* caller c runs parse(str) up to its loop (graphparser.py 252-255)
CallParseStart(c, str) ==
  /\ pc = "parser_shared"
  /\ calls[c].pc = "not_called"
  /\ LET r == tokenize(graph_parser, str)
     IN IF r.raised /= ""
        THEN /\ calls' = [calls EXCEPT ![c] = Call("raised", str, <<>>, 0, "", r.raised)]
             /\ UNCHANGED input_tokens
        ELSE /\ calls' = [calls EXCEPT ![c] = Call("parse_loop", str, r.tokens, 1, "", "")]
             /\ input_tokens' = r.tokens
  /\ UNCHANGED interleaved_unchanged

\* caller c runs one pass of the loop (graphparser.py 257-286):
\* _match_at and _match_tokens read self._input_tokens
CallParseStep(c) ==
  /\ pc = "parser_shared"
  /\ calls[c].pc = "parse_loop"
  /\ calls[c].token_i < Len(calls[c].tokens) - 1
  /\ LET call == calls[c]
         r == match_at(graph_parser, input_tokens, call.token_i)
         rule == graph_parser.rules[r.rule_key + 1]
     IN IF r.raised /= ""
        THEN calls' = [calls EXCEPT ![c].pc = "raised", ![c].exception = r.raised]
        ELSE calls' =
               [calls EXCEPT
                  ![c].output = @ \o onmatch_production(graph_parser, call.tokens,
                                                        input_tokens, call.token_i)
                                  \o rule.production,
                  ![c].token_i = @ + Len(rule.tokens)]
  /\ UNCHANGED <<interleaved_unchanged, input_tokens>>

\* caller c returns output
CallParseReturn(c) ==
  /\ pc = "parser_shared"
  /\ calls[c].pc = "parse_loop"
  /\ ~(calls[c].token_i < Len(calls[c].tokens) - 1)
  /\ calls' = [calls EXCEPT ![c].pc = "returned"]
  /\ UNCHANGED <<interleaved_unchanged, input_tokens>>

NextInterleaved ==
  \/ \E c \in Callers, str \in CallInputs : CallParseStart(c, str)
  \/ \E c \in Callers : CallParseStep(c)
  \/ \E c \in Callers : CallParseReturn(c)

SpecInterleaved == InitInterleaved /\ [][NextInterleaved]_vars

\* C11: a call of parse whose steps are interleaved with those of another
\* call on the same GraphParser ends as it ends when run alone: it returns
\* the same output or raises the same exception.
C11_InterleavedCallsAsSequential ==
  \A c \in Callers :
    LET alone == parse(graph_parser, calls[c].input)
    IN /\ calls[c].pc = "returned" =>
            (alone.raised = "" /\ calls[c].output = alone.output)
       /\ calls[c].pc = "raised" => calls[c].exception = alone.raised

\* ---------------------------------------------------------------------
\* construction of a Scanner from one meter regex of any shape
\* (specification SpecRegex)
\* ---------------------------------------------------------------------

MaxRegexLen == 5

RegexChars == {"-", "=", "(", ")", "|", "+", "*", "?"}

RegexesUpTo(n) == SeqsUpTo(RegexChars, n)

\* Scanner.__init__ up to the call of _meters_graph_of, one meter
InitRegex ==
  /\ meters_list \in {<<regex>> : regex \in RegexesUpTo(MaxRegexLen)}
  /\ constraints = NoConstraints
  /\ post_scan_filter = "none"
  /\ scanner_args = NoArgs
  /\ translation_graph = DirectedGraph
  /\ meter_i = 0
  /\ pc = "constructing"
  /\ IdleScan
  /\ IdleParser

NextRegex == MergeMeter \/ Constructed

SpecRegex == InitRegex /\ [][NextRegex]_vars

\* the grammar of meter regexes: alt ::= cat ('|' cat)*, cat ::= rep+,
\* rep ::= atom ('*' | '+' | '?')*, atom ::= unit | '(' alt ')'.
\* Each operator gives the index after the phrase starting at i, 0 if
\* there is none.
RECURSIVE WfAlt(_, _), WfCat(_, _), WfAtom(_, _)

WfAtom(r, i) ==
  IF i > Len(r) \/ r[i] \in {")", "|", "*", "+", "?"} THEN 0
  ELSE IF r[i] = "("
  THEN LET j == WfAlt(r, i + 1)
       IN IF j /= 0 /\ j <= Len(r) /\ r[j] = ")" THEN j + 1 ELSE 0
  ELSE i + 1

WfRep(r, i) ==
  LET j == WfAtom(r, i)
      ops == {k \in j..Len(r) : \A m \in j..k : r[m] \in {"*", "+", "?"}}
  IN IF j = 0 THEN 0 ELSE j + Cardinality(ops)

WfCat(r, i) ==
  LET j == WfRep(r, i)
  IN IF j = 0 THEN 0
     ELSE IF j <= Len(r) /\ r[j] \notin {"|", ")"} THEN WfCat(r, j)
     ELSE j

WfAlt(r, i) ==
  LET j == WfCat(r, i)
  IN IF j = 0 THEN 0
     ELSE IF j <= Len(r) /\ r[j] = "|" THEN WfAlt(r, j + 1)
     ELSE j

WellFormedRegex(r) == WfAlt(r, 1) = Len(r) + 1

\* C12: once construction has ended, every malformed regex of the meters
\* list (unbalanced parentheses, empty, an operator or a '|' lacking an
\* operand) has been rejected: _regex_to_postfix raises on it and the
\* construction has failed, so no scanner holds a graph built from it.
C12_MalformedRegexRejected ==
  pc \in {"ready", "construct_error"} =>
    \A i \in 1..Len(meters_list) :
      ~WellFormedRegex(meters_list[i]) =>
        (regex_to_postfix(meters_list[i]).err /\ pc = "construct_error")

\* ---------------------------------------------------------------------
\* validation of the arguments of Scanner.__init__  (scanner/validate.py;
\* specification SpecValidate)
\* ---------------------------------------------------------------------

productions_of(prs) == {prs.rules[i].production : i \in 1..Len(prs.rules)}

\* validate_parsers without its comparison of the transcription parser's
\* productions with the long parser's tokens
validate_parsers_tokens_only(transcription, long, short) ==
  IF long.tokens /= short.tokens THEN FALSE ELSE TRUE

\* validate_parsers: TRUE when it returns, FALSE when it raises ValueError
validate_parsers(transcription, long, short) ==
  LET production_tokens ==
        {prs \in productions_of(transcription) : prs /= ""}
  IN IF long.tokens /= short.tokens THEN FALSE
     ELSE IF production_tokens /= long.tokens THEN FALSE
     ELSE TRUE

\* CONSTRAINTS_SCHEMA_STR: for each pair of node types the schema names,
\* what its keys and the entries of its lists are allowed to be
CONSTRAINTS_SCHEMA ==
  ("_" :> ("=" :> [keysrules |-> "star", valuesrules |-> "long"]))
  @@ ("-" :> (("-" :> [keysrules |-> "short", valuesrules |-> "short"])
              @@ ("=" :> [keysrules |-> "short", valuesrules |-> "long"])))
  @@ ("=" :> (("_" :> [keysrules |-> "long", valuesrules |-> "short"])
              @@ ("-" :> [keysrules |-> "long", valuesrules |-> "short"])
              @@ ("=" :> [keysrules |-> "long", valuesrules |-> "long"])))

schema_allowed(kind, long_productions, short_productions) ==
  CASE kind = "star" -> {"*"}
    [] kind = "long" -> long_productions
    [] kind = "short" -> short_productions

\* validate_constraints: TRUE when it returns, FALSE when it raises
validate_constraints(cons, long_productions, short_productions) ==
  IF cons = NoConstraints THEN TRUE
  ELSE \A key \in DOMAIN cons :
         /\ key[1] \in DOMAIN CONSTRAINTS_SCHEMA
         /\ key[2] \in DOMAIN CONSTRAINTS_SCHEMA[key[1]]
         /\ LET rules == CONSTRAINTS_SCHEMA[key[1]][key[2]]
            IN /\ key[3] \in schema_allowed(rules.keysrules, long_productions,
                                             short_productions)
               /\ cons[key] \subseteq schema_allowed(rules.valuesrules,
                                                     long_productions,
                                                     short_productions)

\* the keys METERS_LIST_SCHEMA knows
METERS_LIST_KEYS ==
  {"id", "name", "notes", "fp7tag", "fp7pattern", "regex_pattern", "genre"}

\* validate_meters_list: TRUE when it returns, FALSE when it raises
validate_meters_list(meters) ==
  \A i \in 1..Len(meters) :
    /\ DOMAIN meters[i] \subseteq METERS_LIST_KEYS
    /\ "regex_pattern" \in DOMAIN meters[i]

\* ----- the arguments tried -----

long_parser_bad == [long_parser EXCEPT !.tokens = @ \cup {"c"}]

short_parser_bad == [short_parser EXCEPT !.tokens = @ \cup {"c"}]

\* a transcription parser with one more production
transcription_parser_bad ==
  [transcription_parser EXCEPT !.tokens = @ \cup {"C"},
                               !.rules = Append(@, ParserRule("c", <<"C">>))]

\* a transcription parser with a rule of empty production
transcription_parser_silent ==
  [transcription_parser EXCEPT !.tokens = @ \cup {"h"},
                               !.rules = Append(@, ParserRule("", <<"h">>))]

ParserChoices ==
  { <<transcription_parser, long_parser, short_parser>>,
    <<transcription_parser, long_parser_bad, short_parser>>,
    <<transcription_parser, long_parser, short_parser_bad>>,
    <<transcription_parser_bad, long_parser, short_parser>>,
    <<transcription_parser, long_parser_bad, short_parser_bad>>,
    <<transcription_parser_bad, long_parser_bad, short_parser_bad>>,
    <<transcription_parser_silent, long_parser, short_parser>> }

BadConstraintChoices ==
  { (<<"_", "-", "s<a>">> :> {"s<a>"}),
    (<<"-", "-", "s<x>">> :> {"s<a>"}),
    (<<"-", "-", "s<a>">> :> {"l<aa>"}),
    (<<"_", "=", "s<a>">> :> {"l<aa>"}),
    (<<"=", "=", "l<aa>">> :> {"l<aa>", "l<zz>"}) }

MeterEntries ==
  { [regex_pattern |-> <<"-", "-">>],
    [id |-> 1, name |-> "cycle", regex_pattern |-> <<"=", "+">>],
    [id |-> 2, name |-> "no pattern"] }

ScannerArgs ==
  [parsers : ParserChoices,
   constraints : ConstraintChoices \cup BadConstraintChoices,
   meters_list : SeqsUpTo(MeterEntries, MaxMeters)]

\* Scanner.__init__ is called
InitValidate ==
  /\ scanner_args \in ScannerArgs
  /\ meters_list = <<>>
  /\ constraints = NoConstraints
  /\ post_scan_filter = "none"
  /\ translation_graph = DirectedGraph
  /\ meter_i = 0
  /\ pc = "validating"
  /\ IdleScan
  /\ IdleParser

\* Scanner.__init__ from its first line to the call of _meters_graph_of
\* (scanner.py 65-81)
Validate ==
  /\ pc = "validating"
  /\ LET args == scanner_args
     IN IF /\ validate_parsers(args.parsers[1], args.parsers[2], args.parsers[3])
           /\ validate_constraints(args.constraints,
                                   productions_of(args.parsers[2]),
                                   productions_of(args.parsers[3]))
           /\ validate_meters_list(args.meters_list)
        THEN /\ pc' = "constructing"
             /\ constraints' = args.constraints
             /\ meters_list' = [i \in 1..Len(args.meters_list) |->
                                  args.meters_list[i].regex_pattern]
        ELSE /\ pc' = "validate_error"
             /\ UNCHANGED <<constraints, meters_list>>
  /\ UNCHANGED <<post_scan_filter, scanner_args, translation_graph, meter_i,
                 scan_locals, scan_result, parser_vars>>

NextValidate == Validate \/ MergeMeter \/ Constructed

SpecValidate == InitValidate /\ [][NextValidate]_vars

\* the pairs of node types a constraint may name
LegalPairs ==
  { <<"_", "=">>, <<"-", "-">>, <<"-", "=">>, <<"=", "_">>, <<"=", "-">>,
    <<"=", "=">> }

\* the parser that matches at a node of the given type
ParserOfType(args, type) ==
  IF type = "=" THEN args.parsers[2] ELSE args.parsers[3]

\* the constraint under key names an illegal pair, a previous production
\* its parser lacks (the pair (_, =) takes the wildcard), or forbids a
\* production the parser of the next type lacks
ConstraintUnknown(args, key) ==
  \/ <<key[1], key[2]>> \notin LegalPairs
  \/ IF <<key[1], key[2]>> = <<"_", "=">> THEN key[3] /= "*"
     ELSE key[3] \notin productions_of(ParserOfType(args, key[1]))
  \/ \E production \in args.constraints[key] :
       production \notin productions_of(ParserOfType(args, key[2]))

ArgsRejected(args) ==
  \/ args.parsers[2].tokens /= args.parsers[3].tokens
  \/ productions_of(args.parsers[1]) \ {""} /= args.parsers[2].tokens
  \/ \E key \in DOMAIN args.constraints : ConstraintUnknown(args, key)
  \/ \E i \in 1..Len(args.meters_list) :
       "regex_pattern" \notin DOMAIN args.meters_list[i]

validate_settings_central_only(toks, rules, onmatch_rules, whitespace) ==
  LET token_keys == DOMAIN toks
      token_classes == UNION {toks[k] : k \in token_keys}
  IN /\ \A i \in 1..Len(rules) : Range(rules[i].tokens) \subseteq token_keys
     /\ \A i \in 1..Len(onmatch_rules) :
          /\ \A j \in 1..Len(onmatch_rules[i].prev_classes) :
               onmatch_rules[i].prev_classes[j] \in token_classes
          /\ \A j \in 1..Len(onmatch_rules[i].next_classes) :
               onmatch_rules[i].next_classes[j] \in token_classes
     /\ whitespace.default \in token_keys
     /\ whitespace.token_class \in token_classes

\* _validate_settings: TRUE when it returns, FALSE when it raises
\* ValueError; the schemas' 'allowed' lists are token_keys and
\* token_classes
validate_settings(toks, rules, onmatch_rules, whitespace) ==
  LET token_keys == DOMAIN toks
      token_classes == UNION {toks[k] : k \in token_keys}
  IN /\ \A i \in 1..Len(rules) :
          /\ Range(rules[i].tokens) \subseteq token_keys
          /\ Range(rules[i].prev_classes) \subseteq token_classes
          /\ Range(rules[i].prev_tokens) \subseteq token_keys
          /\ Range(rules[i].next_tokens) \subseteq token_keys
          /\ Range(rules[i].next_classes) \subseteq token_classes
     /\ \A i \in 1..Len(onmatch_rules) :
          /\ \A j \in 1..Len(onmatch_rules[i].prev_classes) :
               onmatch_rules[i].prev_classes[j] \in token_classes
          /\ \A j \in 1..Len(onmatch_rules[i].next_classes) :
               onmatch_rules[i].next_classes[j] \in token_classes
     /\ whitespace.default \in token_keys
     /\ whitespace.token_class \in token_classes

\* rules naming a token or a class the tokens map lacks
BadRules ==
  { Rule(<<>>, <<>>, <<"a", "c">>, <<>>, <<>>, "x"),
    Rule(<<>>, <<"c">>, <<"a">>, <<>>, <<>>, "x"),
    Rule(<<>>, <<>>, <<"a">>, <<"b", "c">>, <<>>, "x"),
    Rule(<<"class_c">>, <<>>, <<"a">>, <<>>, <<>>, "x"),
    Rule(<<>>, <<>>, <<"a">>, <<>>, <<"class_a", "class_c">>, "x") }

BadOnMatchRules ==
  { OnMatch(<<"class_c">>, <<"class_a">>, "!"),
    OnMatch(<<"class_a">>, <<"class_b", "class_c">>, "!") }

BadSettings ==
  { Settings(TokensAB, <<"a", "b", " ">>, BaseRules \o <<r>>, <<>>, TRUE) :
      r \in BadRules }
  \cup { Settings(TokensAB, <<"a", "b", " ">>, BaseRules, <<o>>, TRUE) :
           o \in BadOnMatchRules }
  \cup { [Settings(TokensAB, <<"a", "b", " ">>, BaseRules, <<>>, TRUE)
            EXCEPT !.whitespace.default = "c"],
         [Settings(TokensAB, <<"a", "b", " ">>, BaseRules, <<>>, TRUE)
            EXCEPT !.whitespace.token_class = "class_c"] }

\* GraphParser(tokens, rules, onmatch_rules, whitespace) is called
InitConstruct ==
  /\ meters_list = <<>>
  /\ constraints = NoConstraints
  /\ post_scan_filter = "none"
  /\ scanner_args = NoArgs
  /\ translation_graph = DirectedGraph
  /\ meter_i = 0
  /\ IdleScan
  /\ pc = "parser_init"
  /\ settings \in GraphParserSettings \cup BadSettings
  /\ graph_parser = NoGraphParser
  /\ input_tokens = <<>>
  /\ gp_input = <<>>
  /\ gp_tokens = <<>>
  /\ gp_token_i = 0
  /\ gp_output = ""
  /\ gp_rule_key = None
  /\ exception = ""
  /\ calls = NoCalls

\* GraphParser.__init__ (graphparser.py 69-89)
Construct ==
  /\ pc = "parser_init"
  /\ IF validate_settings(settings.tokens, settings.rules,
                          settings.onmatch_rules, settings.whitespace)
     THEN /\ graph_parser' = GraphParser(settings)
          /\ pc' = "parser_ready"
          /\ UNCHANGED exception
     ELSE /\ pc' = "init_raise"
          /\ exception' = "ValueError"
          /\ UNCHANGED graph_parser
  /\ UNCHANGED <<scanner_vars, input_tokens, gp_input, gp_tokens, gp_token_i,
                 gp_output, gp_rule_key, settings, calls>>

NextConstruct == Construct \/ NextParser

SpecConstruct == InitConstruct /\ [][NextConstruct]_vars

\* some token has the class
ClassOfSomeToken(toks, class) == \E k \in DOMAIN toks : class \in toks[k]

\* a rule's central, previous or next token is no key of the tokens map,
\* a class of a rule or an on-match rule is the class of no token, the
\* whitespace default is no token or its token_class the class of no token
SettingsInvalid(s) ==
  \/ \E i \in 1..Len(s.rules) :
       \/ \E tok \in Range(s.rules[i].tokens) \cup Range(s.rules[i].prev_tokens)
                     \cup Range(s.rules[i].next_tokens) :
            tok \notin DOMAIN s.tokens
       \/ \E class \in Range(s.rules[i].prev_classes)
                       \cup Range(s.rules[i].next_classes) :
            ~ClassOfSomeToken(s.tokens, class)
  \/ \E i \in 1..Len(s.onmatch_rules) :
       \E class \in Range(s.onmatch_rules[i].prev_classes)
                    \cup Range(s.onmatch_rules[i].next_classes) :
         ~ClassOfSomeToken(s.tokens, class)
  \/ s.whitespace.default \notin DOMAIN s.tokens
  \/ ~ClassOfSomeToken(s.tokens, s.whitespace.token_class)

\* C14: GraphParser.__init__ called with settings that name an unknown
\* token or class (in a rule, an on-match rule or the whitespace settings)
\* raises, and no parser is built.
C14_InvalidSettingsRejected ==
  (pc /= "parser_init" /\ SettingsInvalid(settings)) =>
    (pc = "init_raise" /\ exception = "ValueError"
     /\ graph_parser = NoGraphParser)

\* C14 witness: construction has raised on a rule whose previous token is
\* no token
C14_Witness ==
  /\ pc = "init_raise"
  /\ \E i \in 1..Len(settings.rules) :
       "c" \in Range(settings.rules[i].prev_tokens)

\* ---------------------------------------------------------------------
\* matched_so_far and the types of the matches
\* ---------------------------------------------------------------------

\* the type of each match, in order
TypesOf(matches) == [j \in 1..Len(matches) |-> matches[j].type]

FilterAgain ==
  /\ pc = "filter_return"
  /\ LET filtered == filter_scans(scan_result)
     IN IF filtered.err
        THEN pc' = "filter_error" /\ UNCHANGED scan_result
        ELSE pc' = "filter_again" /\ scan_result' = filtered.scans
  /\ UNCHANGED <<config, translation_graph, meter_i, scan_locals>>
  /\ UNCHANGED parser_vars

NextFilterTwice == FilterScans \/ FilterAgain

SpecFilterTwice == InitFilter /\ [][NextFilterTwice]_vars

\* C17: filter_scans applied to the list filter_scans returned gives that
\* list again.
C17_FilterIdempotent ==
  /\ pc = "filter_again" =>
       scan_result = filter_scans(completed_scans).scans
  /\ pc = "filter_return" => ~filter_scans(scan_result).err

\* C17 witness: the filter was applied twice to a list from which the
\* first application dropped a scan and kept several
C17_Witness ==
  /\ pc = "filter_again"
  /\ Len(scan_result) < Len(completed_scans)
  /\ Len(scan_result) >= 2

\* ---------------------------------------------------------------------
\* a Scanner from construction to its scans  (specification SpecSession):
\* Scanner.__init__ with accepted arguments, then calls of scan with and
\* without first_only
\* ---------------------------------------------------------------------

MaxLineLen == 3

\* raw input lines, among them the empty line, lines of whitespace only
\* and lines with a character the plain transcription parser lacks
Lines == SeqsUpTo({"A", " ", "h"}, MaxLineLen)

PatternEntries == {e \in MeterEntries : "regex_pattern" \in DOMAIN e}

\* accepted arguments: the meters list may be empty
SessionArgs ==
  [parsers : { <<transcription_parser, long_parser, short_parser>>,
               <<transcription_parser_silent, long_parser, short_parser>> },
   constraints : { NoConstraints,
                   (<<"-", "-", "s<a>">> :> {"s<ba>", "s<a>"}) },
   meters_list : SeqsUpTo(PatternEntries, MaxMeters)]

InitSession ==
  /\ scanner_args \in SessionArgs
  /\ meters_list = <<>>
  /\ constraints = NoConstraints
  /\ post_scan_filter = "none"
  /\ translation_graph = DirectedGraph
  /\ meter_i = 0
  /\ pc = "validating"
  /\ IdleScan
  /\ IdleParser

\* scanner.scan(input, first_only=fo), the first call on the new Scanner
ScanCall ==
  /\ pc = "ready"
  /\ \E input \in Lines, fo \in BOOLEAN :
       ScanStartWith(scanner_args.parsers[1], input, fo)

NextSession ==
  \/ Validate
  \/ MergeMeter
  \/ Constructed
  \/ ScanCall
  \/ ScanStep
  \/ ScanFinish

SpecSession == InitSession /\ [][NextSession]_vars

\* the orig_tokens of the unit matches of a scan, concatenated
OrigTokensOf(matches) == Concat([j \in 1..Len(matches) |-> matches[j].orig_tokens])

\* the line as the transcription parser tokenises it (whitespace
\* consolidated), the leading sentinel kept and the final one dropped
ConsolidatedLine(tp, input) ==
  LET toks == parser_tokenize(tp, input) IN SubSeq(toks, 1, Len(toks) - 1)

\* the running or finished scan is a scan of input
ScanOf(tp, input) ==
  LET tr == transliterate(tp, input)
  IN /\ ~tr.err
     /\ transcription_tokens =
          << <<tp.whitespace.default>> >> \o tr.last_matched_rule_tokens
            \o << <<tp.whitespace.default>> >>
     /\ tokens = parser_tokenize(long_parser, tr.output)

\* C16: the orig_tokens of the unit matches of every scan result,
\* concatenated, are the input line with its whitespace consolidated (after
\* the leading sentinel), and the list of original tokens has one entry for
\* each token of the tokenised transcription; also for a transcription
\* parser with a rule of empty production.
C16_OrigTokensReproduceInput ==
  pc \in {"scanning", "done"} =>
    \A input \in Lines :
      ScanOf(scanner_args.parsers[1], input) =>
        /\ Len(transcription_tokens) = Len(tokens)
        /\ \A i \in 1..Len(completed_scans) :
             OrigTokensOf(completed_scans[i].matches)
               = ConsolidatedLine(scanner_args.parsers[1], input)

\* C18: a scan of a line that the transcription parser accepts raises no
\* error, whatever the accepted configuration: the only error of a scan is
\* the ValueError of the transcription.
C18_NoMatchIsNoError ==
  pc = "scan_error" => exception = "ValueError"

\* ---------------------------------------------------------------------
\* first_only
\* ---------------------------------------------------------------------

\* the list scan returns without first_only and without a post-scan
\* filter: the work-list loop run until the deque is empty
RECURSIVE full_scan(_, _, _, _)
full_scan(toks, trans_tokens, stk, completed) ==
  IF stk = <<>> THEN completed
  ELSE
    LET it == Head(stk)
        node == translation_graph.node[it.node_key + 1]
        prs == parser_for(constrained_parsers_of(constraints), translation_graph,
                          it.parent_key, node.type, it.matches)
    IN IF is_accepting(node)
       THEN full_scan(toks, trans_tokens, Tail(stk),
                      completed_after(it, node, toks, completed))
       ELSE full_scan(toks, trans_tokens,
                      pushed_iterations(it, node.type, prs,
                                        match_at_all(prs, it.token_i, toks),
                                        edge_of(translation_graph, it.node_key),
                                        trans_tokens)
                        \o Tail(stk),
                      completed)

\* what the finished call would have returned without first_only
FullList ==
  full_scan(tokens, transcription_tokens,
            initial_stack(edge_of(translation_graph, 0)), <<>>)

WhitespaceOnly(gp, str) ==
  \A i \in 1..Len(str) :
    \E tok \in DOMAIN gp.tokens :
      /\ TokenChars[tok] = <<str[i]>>
      /\ is_whitespace(gp, tok)

\* C20: for the empty string and for a string of whitespace only, tokenize
\* returns the two sentinel whitespace tokens and parse returns the empty
\* string; neither raises.
C20_EmptyInputGivesSentinels ==
  (pc /= "parser_ready" /\ WhitespaceOnly(graph_parser, gp_input)) =>
    /\ pc \in {"tokenize_return", "parse_loop", "parse_return"}
    /\ exception = ""
    /\ gp_tokens = <<graph_parser.whitespace.default,
                     graph_parser.whitespace.default>>
    /\ pc = "parse_return" => gp_output = ""

\* ---------------------------------------------------------------------
\* the failures of parse
\* ---------------------------------------------------------------------

\* C21: when parse fails in its loop, it fails with the ValueError of
\* _match_at ("Could not match token ..."), never with the AssertionError of
\* 'past boundary' nor with the TypeError of a node that has neither a child
\* for the current token nor a rule leaf.
C21_NoMatchRaisesValueError ==
  pc = "parse_raise" => exception = "ValueError"

\* ---------------------------------------------------------------------
\* the shape of the translation graph
\* ---------------------------------------------------------------------

\* node k has an incoming edge from a node at the same or a greater level
IsCyclic(g, k) ==
  LET level == levels_of(g)
  IN \E p \in NodeKeys(g) :
       /\ HasEdge(g, p, k)
       /\ p \in DOMAIN level
       /\ k \in DOMAIN level
       /\ level[p] >= level[k]

\* C22: in the translation graph, after every merged meter, no parent has
\* two different children of the same type that are both non-cyclic.
C22_NoTwoChildrenOfOneType ==
  \A p \in NodeKeys(translation_graph) :
    \A c1, c2 \in Range(edge_of(translation_graph, p)) :
      (/\ c1 /= c2
       /\ TypeOf(translation_graph, c1) = TypeOf(translation_graph, c2)
       /\ ~IsCyclic(translation_graph, c1))
        => IsCyclic(translation_graph, c2)

\* ---------------------------------------------------------------------
\* the minimised graph of a meter
\* ---------------------------------------------------------------------

MaxPathLen == 4

\* the strings of meter symbols up to MaxPathLen
SymbolStrings == SeqsUpTo({"-", "="}, MaxPathLen)

\* the nodes reached from the nodes S by the labels str[i..]
RECURSIVE GraphEnds(_, _, _, _)
GraphEnds(g, str, i, S) ==
  IF i > Len(str) THEN S
  ELSE GraphEnds(g, str, i + 1,
                 {c \in NodeKeys(g) :
                    /\ TypeOf(g, c) = str[i]
                    /\ \E p \in S : HasEdge(g, p, c)})

\* str labels a path from a child of the root to the Accepting node
GraphAccepts(g, str) ==
  \E n \in GraphEnds(g, str, 1, {0}) :
    \E a \in NodeKeys(g) : HasEdge(g, n, a) /\ TypeOf(g, a) = "Accepting"

\* the nodes reachable from the root
RECURSIVE ReachableFrom(_, _)
ReachableFrom(g, S) ==
  LET more == S \cup {t \in NodeKeys(g) : \E s \in S : HasEdge(g, s, t)}
  IN IF more = S THEN S ELSE ReachableFrom(g, more)

\* the chain 0, the symbols, Accepting
ChainOf(symbols) ==
  [node |-> [i \in 1..(Len(symbols) + 2) |->
               NodeData(IF i = 1 THEN "0"
                        ELSE IF i = Len(symbols) + 2 THEN "Accepting"
                        ELSE symbols[i - 1])],
   edge_list |-> [i \in 1..(Len(symbols) + 1) |-> <<i - 1, i>>]]

\* what C23 says of the minimised graph of the regex
MinimisedAsSpecified(regex) ==
  LET m == minimized_graph_of_meter(regex)
      g == m.graph
      accepting == {k \in NodeKeys(g) : TypeOf(g, k) = "Accepting"}
  IN /\ m.outcome = "ok"
     /\ \A k \in NodeKeys(g) : TypeOf(g, k) /= "Split"
     /\ TypeOf(g, 0) = "0"
     /\ Cardinality(accepting) = 1
     /\ accepting \subseteq ReachableFrom(g, {0})
     /\ \A str \in SymbolStrings : GraphAccepts(g, str) <=> Matches(regex, str)
     /\ (\A i \in 1..Len(regex) : regex[i] \in {"-", "="}) => g = ChainOf(regex)

\* C23: the minimised graph of every well-formed meter regex has no Split
\* node and exactly one Accepting node, reachable from the root of type
\* '0'; the label strings of its paths from the root's children to the
\* Accepting node are the strings of the regex; a concatenation of symbols
\* gives the chain 0, the symbols, Accepting.
C23_MinimisedGraphIsTheRegex ==
  pc \in {"ready", "construct_error"} =>
    \A i \in 1..Len(meters_list) :
      WellFormedRegex(meters_list[i]) => MinimisedAsSpecified(meters_list[i])

\* C24: the minimisation of the NFA of every regex that
\* _regex_to_postfix accepts ends, also when the NFA has a cycle of Split
\* nodes only.
C24_MinimisationTerminates ==
  pc \in {"ready", "construct_error"} =>
    \A i \in 1..Len(meters_list) :
      ~ndfa_graph_of_meter(meters_list[i]).err =>
        minimized_graph_of_meter(meters_list[i]).outcome /= "diverged"

\* ---------------------------------------------------------------------
\* the postfix form of a regex
\* ---------------------------------------------------------------------

PostfixOperators == {".", "|", "*", "+", "?"}

\* the literals of a regex or of a postfix string, in order
Literals(s) == SelectSeq(s, LAMBDA c : c \notin PostfixOperators \cup {"(", ")"})

Count(s, c) == Cardinality({i \in 1..Len(s) : s[i] = c})

\* the number of fragments on the Thompson stack after postfix[i..] when n
\* are on it, or -1 when an operator finds too few
RECURSIVE FragmentsLeft(_, _, _)
FragmentsLeft(postfix, i, n) ==
  IF i > Len(postfix) THEN n
  ELSE IF postfix[i] \in {".", "|"}
  THEN IF n < 2 THEN 0 - 1 ELSE FragmentsLeft(postfix, i + 1, n - 1)
  ELSE IF postfix[i] \in {"*", "+", "?"}
  THEN IF n < 1 THEN 0 - 1 ELSE FragmentsLeft(postfix, i + 1, n)
  ELSE FragmentsLeft(postfix, i + 1, n + 1)

\* what C25 says of the postfix form of the regex
PostfixAsSpecified(regex) ==
  LET p == regex_to_postfix(regex)
  IN /\ ~p.err
     /\ Literals(p.out) = Literals(regex)
     /\ Count(p.out, "|") = Count(regex, "|")
     /\ Count(p.out, ".") = Len(Literals(regex)) - Count(regex, "|") - 1
     /\ \A op \in {"*", "+", "?"} : Count(p.out, op) = Count(regex, op)
     /\ FragmentsLeft(p.out, 1, 0) = 1

\* C25: the postfix form of every well-formed regex, taken as a whole
\* (top level), has the regex's literals in order, one '|' for each '|' of
\* the regex, one '.' for each implicit concatenation and each postfix
\* operator once; evaluated on the Thompson stack it never finds the stack
\* short and leaves one fragment.
C25_PostfixWellFormed ==
  pc \in {"ready", "construct_error"} =>
    \A i \in 1..Len(meters_list) :
      WellFormedRegex(meters_list[i]) => PostfixAsSpecified(meters_list[i])

\* ---------------------------------------------------------------------
\* the edges of the translation graph
\* ---------------------------------------------------------------------

\* C26: after every merged meter each (source, destination) pair occurs at
\* most once in the edge list of the translation graph.
C26_NoDuplicateEdge ==
  \A i, j \in 1..Len(translation_graph.edge_list) :
    translation_graph.edge_list[i] = translation_graph.edge_list[j] => i = j

\* ---------------------------------------------------------------------
\* the order of the rules of a GraphParser
\* ---------------------------------------------------------------------

\* the number of constraints of a rule, and of those given by class
ConstraintsOf(rule) ==
  Len(rule.prev_classes) + Len(rule.prev_tokens)
  + Len(rule.next_tokens) + Len(rule.next_classes)

ClassConstraintsOf(rule) == Len(rule.prev_classes) + Len(rule.next_classes)

\* C27: the rules of a constructed GraphParser are in non-decreasing order
\* of cost with rules of equal cost in input order; of two rules with the
\* same number of tokens the one with more constraints comes first; of two
\* rules with the same number of tokens and of constraints, the one
\* constrained by exact tokens only comes before the one constrained by
\* token classes only.
C27_RulesOrderedBySpecificity ==
  pc \notin {"parser_init", "init_raise"} =>
    LET rules == graph_parser.rules
        given == [i \in 1..Len(settings.rules) |-> parser_rule_of(settings.rules[i])]
    IN /\ Len(rules) = Len(given)
       /\ \A i, j \in 1..Len(rules) : i < j => rules[i].cost <= rules[j].cost
       /\ \A i \in 1..Len(rules) :
            SelectSeq(rules, LAMBDA r : r.cost = rules[i].cost)
              = SelectSeq(given, LAMBDA r : r.cost = rules[i].cost)
       /\ \A i, j \in 1..Len(rules) :
            (/\ Len(rules[i].tokens) = Len(rules[j].tokens)
             /\ ConstraintsOf(rules[i]) > ConstraintsOf(rules[j]))
              => i < j
       /\ \A i, j \in 1..Len(rules) :
            (/\ Len(rules[i].tokens) = Len(rules[j].tokens)
             /\ ConstraintsOf(rules[i]) = ConstraintsOf(rules[j])
             /\ ConstraintsOf(rules[i]) > 0
             /\ ClassConstraintsOf(rules[i]) = 0
             /\ ClassConstraintsOf(rules[j]) = ConstraintsOf(rules[j]))
              => i < j

\* ---------------------------------------------------------------------
\* the termination of Scanner.scan
\* ---------------------------------------------------------------------

\* meters whose graphs have the cycles of + and *
CyclicPatterns ==
  { <<"=", "+">>,
    <<"-", "*", "=">> }

\* each cyclic meter alone, and the two together
CyclicMeterLists ==
  {<<p>> : p \in CyclicPatterns} \cup { << <<"=", "+">>, <<"-", "*", "=">> >> }

InitCyclic ==
  /\ meters_list \in CyclicMeterLists
  /\ constraints = NoConstraints
  /\ post_scan_filter = "none"
  /\ scanner_args = NoArgs
  /\ translation_graph = DirectedGraph
  /\ meter_i = 0
  /\ pc = "constructing"
  /\ IdleScan
  /\ IdleParser

\* the work-list loop runs on while it can, and scan returns when it ends
SpecScanFair == InitCyclic /\ [][Next]_vars /\ WF_vars(ScanStep) /\ WF_vars(ScanFinish)

\* a pass of the loop takes the first iteration off the work list and puts
\* in front of the others only iterations further on in the tokens
StepAdvances ==
  ScanStep =>
    LET added == Len(stack') - (Len(stack) - 1)
    IN /\ added >= 0
       /\ SubSeq(stack', added + 1, Len(stack')) = Tail(stack)
       /\ \A k \in 1..added : stack'[k].token_i > Head(stack).token_i

\* no iteration of the work list is beyond the end of the tokens
TokenIndexBounded ==
  \A k \in 1..Len(stack) : stack[k].token_i <= Len(tokens)

\* C28: every pass of the work-list loop of scan removes one iteration and
\* adds only iterations with a strictly greater token index, no token index
\* exceeds the number of tokens, and every scan that has started ends, also
\* on a translation graph with the cycles of * and +.
C28_ScanTerminates ==
  /\ [][StepAdvances]_vars
  /\ []TokenIndexBounded
  /\ (pc = "scanning" ~> pc \in {"done", "scan_error"})

\* a scan over the cycle of the meter =+ has gone round it and has ended
C28_Witness ==
  /\ pc = "done"
  /\ meters_list = << <<"=", "+">> >>
  /\ \E i \in 1..Len(scan_result) : scan_result[i].scan = <<"=", "=">>

\* ---------------------------------------------------------------------
\* the default post-scan filter after a scan with show_feet
\* (specification SpecFeet): the DefaultScanner's find_feet puts the foot
\* separators of the meter's fp7pattern into the scan string of every
\* result before the list goes to filter_scans
\* ---------------------------------------------------------------------

\* str.replace(ch, "")
Without(str, ch) == SelectSeq(str, LAMBDA c : c /= ch)

\* the fp7pattern of the meters of the list
FootPatterns ==
  << <<"-", " ", "-", " ", "/", " ", "=", " ", "=">>,
     <<"=", " ", "/", " ", "=">> >>

\* "//" in _ : _.index("//"), 1-based, or 0
RECURSIVE index_of_double_slash(_, _)
index_of_double_slash(str, i) ==
  IF i >= Len(str) THEN 0
  ELSE IF str[i] = "/" /\ str[i + 1] = "/" THEN i
  ELSE index_of_double_slash(str, i + 1)

\* the feet appended to poss_feet for one pattern (default.py 78-91)
poss_feet_of(pattern) ==
  LET rest == SubSeq(pattern, 3, Len(pattern))
      loc  == index_of_double_slash(pattern, 1)
  IN IF \E i \in 1..Len(pattern) : pattern[i] = "*"
     THEN << <<"=">> \o rest, <<"=">> \o rest \o <<"_">>, <<"-">> \o rest \o <<"_">> >>
     ELSE IF loc > 0
     THEN << pattern, pattern \o <<"_">>,
             SubSeq(pattern, 1, loc - 1) \o <<"_">> \o SubSeq(pattern, loc, Len(pattern)) >>
     ELSE << pattern, pattern \o <<"_">> >>

\* _gen_possible_feet(meters_list): the dict from a scan to the scan with
\* its feet; of two feet with one key the later one stays
gen_possible_feet(patterns) ==
  LET withfeet  == [i \in 1..Len(patterns) |-> Without(patterns[i], " ")]
      poss_feet == Concat([i \in 1..Len(withfeet) |-> poss_feet_of(withfeet[i])])
      keys      == {Without(poss_feet[i], "/") : i \in 1..Len(poss_feet)}
  IN [k \in keys |->
        poss_feet[CHOOSE i \in 1..Len(poss_feet) :
                    /\ Without(poss_feet[i], "/") = k
                    /\ \A j \in (i + 1)..Len(poss_feet) : Without(poss_feet[j], "/") /= k]]

scans_with_feet == gen_possible_feet(FootPatterns)

\* DefaultScanner.find_feet(scan)
find_feet(scan) == scans_with_feet[scan]

\* the scan string of a completed scan (scanner.py 174-186)
scan_string_of(matched_so_far, show_feet) ==
  IF show_feet THEN find_feet(matched_so_far) ELSE matched_so_far

\* the lists of results scan hands to the filter: scans of the meters of
\* the list, with feet when show_feet is set
PlainLists ==
  SeqsUpTo({ScanResult(sc, <<>>, m) : sc \in DOMAIN scans_with_feet,
                                      m \in 0..MaxMeterKey},
           MaxScans)

ShownList(scans, show_feet) ==
  [i \in 1..Len(scans) |->
     ScanResult(scan_string_of(scans[i].scan, show_feet), scans[i].matches,
                scans[i].meter_key)]

InitFeet ==
  /\ meters_list = <<>>
  /\ constraints = NoConstraints
  /\ post_scan_filter = "filter_scans"
  /\ scanner_args = NoArgs
  /\ translation_graph = DirectedGraph
  /\ meter_i = 0
  /\ pc = "filter_call"
  /\ first_only = FALSE
  /\ transcription_tokens = <<>>
  /\ tokens = <<>>
  /\ stack = <<>>
  /\ completed_scans \in {ShownList(l, sf) : l \in PlainLists, sf \in BOOLEAN}
  /\ continue_processing = FALSE
  /\ iteration = NoIteration
  /\ parser = NullParser
  /\ scan_result = <<>>
  /\ IdleParser

SpecFeet == InitFeet /\ [][NextFilter]_vars

\* the meter keys of a list of results, in order
MetersOf(scans) == [i \in 1..Len(scans) |-> scans[i].meter_key]

\* the list as scan gives it without show_feet
Unshown(scans) ==
  [i \in 1..Len(scans) |->
     ScanResult(Without(scans[i].scan, "/"), scans[i].matches, scans[i].meter_key)]

\* C29: filter_scans returns normally on every list scan hands to it, also
\* on the lists of a scan with show_feet in which results share a
\* meter_key, and then returns the meters it returns without show_feet.
C29_FilterAcceptsFeet ==
  /\ pc /= "filter_error"
  /\ pc = "filter_return" =>
       MetersOf(scan_result) = MetersOf(filter_scans(Unshown(completed_scans)).scans)

\* ---------------------------------------------------------------------
\* what the merge of a further meter leaves alone
\* ---------------------------------------------------------------------

\* construction of a Scanner from a list of meters with shared beginnings,
\* options and cycles (specification SpecMerge)
MergePatterns ==
  MeterPatterns \cup CyclicPatterns
  \cup { <<"-", "*", "|", "-">>,
         <<"(", "-", "|", "=", ")", "+">>,
         <<"=", "?", "-">> }

InitMerge ==
  /\ meters_list \in SeqsUpTo(MergePatterns, MaxMeters) \ {<<>>}
  /\ constraints = NoConstraints
  /\ post_scan_filter = "none"
  /\ scanner_args = NoArgs
  /\ translation_graph = DirectedGraph
  /\ meter_i = 0
  /\ pc = "constructing"
  /\ IdleScan
  /\ IdleParser

SpecMerge == InitMerge /\ [][NextRegex]_vars

\* the symbol strings up to MaxPathLen spelled by the paths from the root
\* to node k
StringsTo(g, k) ==
  {str \in SymbolStrings : \E n \in GraphEnds(g, str, 1, {0}) : HasEdge(g, n, k)}

\* the merge from graph g to graph h kept the nodes and edges of g, added
\* only edges into nodes that g lacks, and kept the strings of the
\* accepting nodes of g
MergeKeeps(g, h) ==
  /\ Len(h.node) >= Len(g.node)
  /\ \A k \in 1..Len(g.node) : h.node[k].type = g.node[k].type
  /\ Len(h.edge_list) >= Len(g.edge_list)
  /\ SubSeq(h.edge_list, 1, Len(g.edge_list)) = g.edge_list
  /\ \A i \in (Len(g.edge_list) + 1)..Len(h.edge_list) :
       h.edge_list[i][2] >= Len(g.node)
  /\ \A k \in NodeKeys(g) :
       TypeOf(g, k) = "Accepting" => StringsTo(h, k) = StringsTo(g, k)

\* C30: the merge of a further meter into the translation graph keeps the
\* key and type of every node and every edge that were there, adds only
\* edges that end in nodes created by this merge, and keeps, for every
\* accepting node of an earlier meter, the set of symbol strings spelled
\* by the paths from the root to it.
C30_MergeKeepsEarlierMeters ==
  [][(MergeMeter /\ meter_i >= 1) => MergeKeeps(translation_graph, translation_graph')]_vars

\* C30 witness: the second meter was merged and gave a node of the first
\* meter a new child
C30_Witness ==
  /\ meter_i = 2
  /\ LET first == merge_meter(DirectedGraph, meters_list[1], 0).graph
     IN \E i \in 1..Len(translation_graph.edge_list) :
          /\ i > Len(first.edge_list)
          /\ translation_graph.edge_list[i][1] >= 1
          /\ translation_graph.edge_list[i][1] < Len(first.node)

====
